---- MODULE Spec2Model ----
(***************************************************************************)
(* Model of the streaming session layer of src/websocket_server.py:        *)
(* AudioStreamBuffer, WebSocketConnectionManager and the per-connection    *)
(* coroutine websocket_endpoint, run by one asyncio event loop.            *)
(*                                                                         *)
(* Units.  Time is counted in ticks of 1/TicksPerSecond second, so the     *)
(* defaults 1.0 s / 0.5 s / 0.5 s are 2 / 1 / 1 ticks.  Sample rates are   *)
(* small integers (samples per second): the rate the server constructs a   *)
(* buffer with (16000 in the source) is DefaultSampleRate here, and the    *)
(* ring then holds BufferSeconds * DefaultSampleRate samples.  Samples are *)
(* numbered in arrival order so that the ring's contents show which        *)
(* samples were kept.                                                      *)
(***************************************************************************)
EXTENDS Integers, Sequences, FiniteSets, TLC

\* ------------------------------------------------------------------ bounds
\* how many times the clock advances
MaxTicks == 1
\* how many envelopes the message loops of two connections receive, together
MaxMessages == 2
\* how many envelopes the message loop of a single connection receives
MaxSoloMessages == 3
\* how many calls are made on the stand-alone buffer
MaxOps == 5
\* how many times the clock advances between those calls
MaxBufTicks == 4
\* direct calls of the manager's methods in one run
MaxRegOps == 4

\* ------------------------------------------------------- program constants
TicksPerSecond == 2
\* deque(maxlen=int(sample_rate * 10))
BufferSeconds == 10
\* connect(): AudioStreamBuffer(sample_rate=16000, ...), scaled
DefaultSampleRate == 2
\* chunk_duration=1.0
DefaultChunkDuration == 2
\* overlap_duration=0.5
DefaultOverlapDuration == 1
\* min_duration: float = 0.5
DefaultMinDuration == 1
\* time.time() when the server starts: far from last_process_time = 0.0
StartTime == 4

\* ------------------------------------------------------------ arithmetic
\* Python int(x) of the quotient n / d: truncation toward zero
Trunc(n, d) == IF n >= 0 THEN n \div d ELSE -((-n) \div d)

\* int(sample_rate * duration), the duration given in ticks
SamplesIn(sample_rate, duration) == Trunc(sample_rate * duration, TicksPerSecond)

Min(a, b) == IF a <= b THEN a ELSE b

\* the last n elements of s (all of s when it is shorter)
KeepLast(s, n) ==
  IF n <= 0 THEN << >>
  ELSE IF Len(s) <= n THEN s
  ELSE SubSeq(s, Len(s) - n + 1, Len(s))

\* list(...)[:n] for n >= 0
Prefix(s, n) == SubSeq(s, 1, Min(n, Len(s)))

\* the samples numbered from+1 .. from+n, in order
Samples(from, n) == [i \in 1..n |-> from + i]

\* ------------------------------------------------------ AudioStreamBuffer
\* AudioStreamBuffer.__init__
AudioStreamBuffer(sample_rate, chunk_duration, overlap_duration, min_duration) ==
  [ sample_rate            |-> sample_rate,
    chunk_duration         |-> chunk_duration,
    overlap_duration       |-> overlap_duration,
    min_duration           |-> min_duration,
    buffer                 |-> << >>,
    maxlen                 |-> sample_rate * BufferSeconds,
    last_process_time      |-> 0,
    process_interval       |-> chunk_duration - overlap_duration,
    total_chunks_received  |-> 0,
    total_chunks_processed |-> 0 ]

\* deque.extend on a deque with maxlen: append, dropping from the left
DequeExtendDropNewest(q, xs, maxlen) == Prefix(q \o xs, maxlen)
DequeExtend(q, xs, maxlen) == KeepLast(q \o xs, maxlen)

\* AudioStreamBuffer.add_chunk
add_chunk_CountEmpty(b, audio_data) ==
  [b EXCEPT !.buffer = DequeExtend(@, audio_data, b.maxlen),
            !.total_chunks_received = @ + 1]
add_chunk(b, audio_data) ==
  IF Len(audio_data) > 0
  THEN [b EXCEPT !.buffer = DequeExtend(@, audio_data, b.maxlen),
                 !.total_chunks_received = @ + 1]
  ELSE b

\* AudioStreamBuffer.get_processing_chunk: the returned value (some = FALSE
\* is None) and the buffer afterwards; current_time is time.time()
NoChunk(b) == [some |-> FALSE, chunk |-> << >>, buf |-> b]

get_processing_chunk_NoMinCheck(b, current_time) ==
  IF current_time - b.last_process_time < b.process_interval
  THEN NoChunk(b)
  ELSE LET chunk_samples ==
             Min(SamplesIn(b.sample_rate, b.chunk_duration), Len(b.buffer))
       IN [some  |-> TRUE,
           chunk |-> Prefix(b.buffer, chunk_samples),
           buf   |-> [b EXCEPT !.last_process_time = current_time,
                               !.total_chunks_processed = @ + 1]]
get_processing_chunk_Newest(b, current_time) ==
  IF current_time - b.last_process_time < b.process_interval
  THEN NoChunk(b)
  ELSE IF Len(b.buffer) < SamplesIn(b.sample_rate, b.min_duration)
  THEN NoChunk(b)
  ELSE LET chunk_samples ==
             Min(SamplesIn(b.sample_rate, b.chunk_duration), Len(b.buffer))
       IN [some  |-> TRUE,
           chunk |-> KeepLast(b.buffer, chunk_samples),
           buf   |-> [b EXCEPT !.last_process_time = current_time,
                               !.total_chunks_processed = @ + 1]]
get_processing_chunk_Consume(b, current_time) ==
  IF current_time - b.last_process_time < b.process_interval
  THEN NoChunk(b)
  ELSE IF Len(b.buffer) < SamplesIn(b.sample_rate, b.min_duration)
  THEN NoChunk(b)
  ELSE LET chunk_samples ==
             Min(SamplesIn(b.sample_rate, b.chunk_duration), Len(b.buffer))
       IN [some  |-> TRUE,
           chunk |-> Prefix(b.buffer, chunk_samples),
           buf   |-> [b EXCEPT !.buffer = KeepLast(@, Len(@) - chunk_samples),
                               !.last_process_time = current_time,
                               !.total_chunks_processed = @ + 1]]
get_processing_chunk_StampOnMiss(b, current_time) ==
  IF current_time - b.last_process_time < b.process_interval
  THEN NoChunk(b)
  ELSE IF Len(b.buffer) < SamplesIn(b.sample_rate, b.min_duration)
  THEN NoChunk([b EXCEPT !.last_process_time = current_time])
  ELSE LET chunk_samples ==
             Min(SamplesIn(b.sample_rate, b.chunk_duration), Len(b.buffer))
       IN [some  |-> TRUE,
           chunk |-> Prefix(b.buffer, chunk_samples),
           buf   |-> [b EXCEPT !.last_process_time = current_time,
                               !.total_chunks_processed = @ + 1]]
get_processing_chunk(b, current_time) ==
  IF current_time - b.last_process_time < b.process_interval
  THEN NoChunk(b)
  ELSE LET min_samples == SamplesIn(b.sample_rate, b.min_duration)
       IN IF Len(b.buffer) < min_samples
          THEN NoChunk(b)
          ELSE LET chunk_samples ==
                     Min(SamplesIn(b.sample_rate, b.chunk_duration), Len(b.buffer))
               IN [some  |-> TRUE,
                   chunk |-> Prefix(b.buffer, chunk_samples),
                   buf   |-> [b EXCEPT !.last_process_time = current_time,
                                       !.total_chunks_processed = @ + 1]]

\* AudioStreamBuffer.clear
clear_ResetCounters(b) ==
  [b EXCEPT !.buffer = << >>, !.last_process_time = 0,
            !.total_chunks_received = 0, !.total_chunks_processed = 0]
clear(b) == [b EXCEPT !.buffer = << >>, !.last_process_time = 0]

\* AudioStreamBuffer.get_stats; buffer_duration is len(buffer) / sample_rate,
\* kept as the pair (numerator, denominator); a zero sample_rate raises
get_stats(b) ==
  [ buffer_size            |-> Len(b.buffer),
    buffer_duration        |-> << Len(b.buffer), b.sample_rate >>,
    total_chunks_received  |-> b.total_chunks_received,
    total_chunks_processed |-> b.total_chunks_processed ]

\* ------------------------------------------------------------ the wire
\* the WebSocket objects, one per accepted transport and handler coroutine
Conns == {"w1", "w2"}
\* None / "" (a missing client_id, or no client_id yet)
NoId == ""
\* the client_id values a first envelope supplies
ClientIds == {"a"}
\* str(uuid.uuid4()): a fresh id for each connection that supplies none
Uuid(c) == IF c = "w1" THEN "uuid-1" ELSE "uuid-2"
Ids == ClientIds \cup {Uuid(c) : c \in Conns}
\* the first sample number of each connection's audio
SampleBase(c) == IF c = "w1" THEN 100 ELSE 200

\* a field that the envelope does not carry
Absent == -1
\* sample_rate values of envelopes
MsgSampleRates == {0, 1}
\* sample_rate values of config envelopes
ConfigSampleRates == {0, 1}
\* chunk_duration values of config envelopes, in ticks (2.0 s)
MsgChunkDurations == {4}
\* numbers of samples in one audio payload
ChunkLens == {2}
Encodings == {"base64", "json", "other"}

\* audio_data as it arrives: nothing (absent, None, "" or []), a str of
\* base64 text holding n bytes, a str holding a JSON array of n numbers, a
\* str holding a JSON array of n arrays of numbers, all of one length, or
\* a JSON array of n numbers (a list, as the client's json encoding sends)
NoPayload == [form |-> "absent", n |-> 0]
Payloads ==
  {NoPayload}
  \cup {[form |-> "b64", n |-> 4 * k] : k \in ChunkLens}
  \cup {[form |-> "b64", n |-> 3]}
  \cup {[form |-> "json", n |-> k] : k \in ChunkLens \cup {0}}
  \cup {[form |-> "nested", n |-> k] : k \in ChunkLens}
  \cup {[form |-> "list", n |-> k] : k \in ChunkLens}

Envelope(type, client_id, audio_data, sample_rate, encoding, chunk_duration) ==
  [ type |-> type, client_id |-> client_id, audio_data |-> audio_data,
    sample_rate |-> sample_rate, encoding |-> encoding,
    chunk_duration |-> chunk_duration ]

\* a frame that receive_json cannot turn into a JSON object
Malformed == Envelope("malformed", NoId, NoPayload, Absent, "base64", Absent)

\* a first envelope that is an audio_chunk with a valid payload
FirstAudio(id) ==
  Envelope("audio_chunk", id, [form |-> "b64", n |-> 8], 1, "base64", Absent)
\* first envelopes: the client's {"type": "connect", "client_id": ...}, with
\* or without a client_id, an audio_chunk, or a malformed frame.  Which of
\* two connections comes without a client_id or starts with audio makes no
\* difference: it is always w2
FirstMessages(c) ==
  {Envelope("connect", id, NoPayload, Absent, "base64", Absent) :
     id \in ClientIds \cup (IF c = "w1" THEN {} ELSE {NoId})}
  \cup (IF c = "w1" THEN {} ELSE {FirstAudio(id) : id \in ClientIds \cup {NoId}})
  \cup {Malformed}
\* how the type of a first envelope is recorded: the handshake reads only
\* client_id, so a type other than connect is kept apart from the types the
\* loop dispatches
FirstType(m) == IF m.type = "connect" THEN "connect" ELSE "first " \o m.type

AudioMessages ==
  {Envelope("audio_chunk", NoId, p, sr, e, Absent) :
     p \in Payloads, sr \in MsgSampleRates \cup {Absent}, e \in Encodings}
ConfigMessages ==
  {Envelope("config", NoId, NoPayload, sr, "base64", cd) :
     sr \in ConfigSampleRates \cup {Absent}, cd \in MsgChunkDurations \cup {Absent}}
PingStats ==
  {Envelope(t, NoId, NoPayload, Absent, "base64", Absent) : t \in {"ping", "stats"}}
\* an envelope without a type key
NoType == ""
\* envelopes of no known type: a type the loop has no branch for, or none
UnknownMessages ==
  {Envelope(t, NoId, NoPayload, Absent, "base64", Absent) : t \in {"foo", NoType}}
OtherMessages == UnknownMessages \cup {Malformed}
\* message_type = message.get('type', 'unknown')
message_type(m) == IF m.type = NoType THEN "unknown" ELSE m.type
\* the types the loop has a branch for
KnownTypes == {"audio_chunk", "config", "ping", "stats"}
\* the text of the error envelope of the loop's else branch
UnknownTypeError_Generic(t) == "Unknown message type"
UnknownTypeError(t) == "Unknown message type: " \o t
Messages == AudioMessages \cup ConfigMessages \cup PingStats \cup OtherMessages

\* decode_audio_data(data, encoding): ok and the samples, or the exception's
\* text.  from is the number of the sample before the first one of the payload.
\* np.array turns a JSON array of n equally long arrays into an array with n
\* rows, whose rows add_chunk then appends to the ring as its elements
decode_audio_data(data, encoding, from) ==
  IF encoding = "base64"
  THEN IF data.form = "list"
       THEN [ok |-> FALSE, samples |-> << >>,
             err |-> "argument should be a bytes-like object or ASCII string, not 'list'"]
       ELSE IF data.form = "b64"
       THEN IF data.n % 4 = 0
            THEN [ok |-> TRUE, samples |-> Samples(from, data.n \div 4), err |-> ""]
            ELSE [ok |-> FALSE, samples |-> << >>,
                  err |-> "buffer size must be a multiple of element size"]
       ELSE [ok |-> FALSE, samples |-> << >>, err |-> "Incorrect padding"]
  ELSE IF encoding = "json"
  THEN IF data.form = "list"
       THEN [ok |-> FALSE, samples |-> << >>,
             err |-> "the JSON object must be str, bytes or bytearray, not list"]
       ELSE IF data.form \in {"json", "nested"}
       THEN [ok |-> TRUE, samples |-> Samples(from, data.n), err |-> ""]
       ELSE [ok |-> FALSE, samples |-> << >>, err |-> "Expecting value"]
  ELSE [ok |-> FALSE, samples |-> << >>, err |-> "Unsupported encoding"]

\* what Detector.detect returns (the label of the result dictionary)
Results == {"spoof", "bonafide"}

Reply(type, body) == [type |-> type, body |-> body]
NoReply == Reply("none", "")

\* ------------------------------------------- WebSocketConnectionManager
Put(f, k, v) == [x \in DOMAIN f \cup {k} |-> IF x = k THEN v ELSE f[x]]
Remove(f, k) == [x \in DOMAIN f \ {k} |-> f[x]]
EmptyMap == [x \in {} |-> 0]

\* WebSocketConnectionManager.__init__
NewManager ==
  [ active_connections  |-> EmptyMap,
    stream_buffers      |-> EmptyMap,
    connection_metadata |-> EmptyMap ]

\* WebSocketConnectionManager.connect, after websocket.accept() has returned
connect_KeepBuffer(mgr, websocket, client_id, t) ==
  [ active_connections  |-> Put(mgr.active_connections, client_id, websocket),
    stream_buffers      |-> IF client_id \in DOMAIN mgr.stream_buffers
                            THEN mgr.stream_buffers
                            ELSE Put(mgr.stream_buffers, client_id,
                                     AudioStreamBuffer(DefaultSampleRate, DefaultChunkDuration,
                                                       DefaultOverlapDuration, DefaultMinDuration)),
    connection_metadata |-> Put(mgr.connection_metadata, client_id,
                                [connected_at |-> t, total_messages |-> 0,
                                 total_detections |-> 0]) ]
connect_NoMetadata(mgr, websocket, client_id, t) ==
  [ active_connections  |-> Put(mgr.active_connections, client_id, websocket),
    stream_buffers      |-> Put(mgr.stream_buffers, client_id,
                                AudioStreamBuffer(DefaultSampleRate, DefaultChunkDuration,
                                                  DefaultOverlapDuration, DefaultMinDuration)),
    connection_metadata |-> mgr.connection_metadata ]
connect_CountsFirst(mgr, websocket, client_id, t) ==
  [ active_connections  |-> Put(mgr.active_connections, client_id, websocket),
    stream_buffers      |-> Put(mgr.stream_buffers, client_id,
                                AudioStreamBuffer(DefaultSampleRate, DefaultChunkDuration,
                                                  DefaultOverlapDuration, DefaultMinDuration)),
    connection_metadata |-> Put(mgr.connection_metadata, client_id,
                                [connected_at |-> t, total_messages |-> 1,
                                 total_detections |-> 0]) ]
connect(mgr, websocket, client_id, t) ==
  [ active_connections  |-> Put(mgr.active_connections, client_id, websocket),
    stream_buffers      |-> Put(mgr.stream_buffers, client_id,
                                AudioStreamBuffer(DefaultSampleRate, DefaultChunkDuration,
                                                  DefaultOverlapDuration, DefaultMinDuration)),
    connection_metadata |-> Put(mgr.connection_metadata, client_id,
                                [connected_at |-> t, total_messages |-> 0,
                                 total_detections |-> 0]) ]

\* WebSocketConnectionManager.disconnect
disconnect_KeepMetadata(mgr, client_id) ==
  [ active_connections  |-> Remove(mgr.active_connections, client_id),
    stream_buffers      |-> Remove(mgr.stream_buffers, client_id),
    connection_metadata |-> mgr.connection_metadata ]
disconnect_DropAll(mgr, client_id) ==
  IF client_id \in DOMAIN mgr.active_connections
  THEN [ active_connections  |-> << >>,
         stream_buffers      |-> << >>,
         connection_metadata |-> << >> ]
  ELSE mgr
disconnect_KeepConnection(mgr, client_id) ==
  [ active_connections  |-> mgr.active_connections,
    stream_buffers      |-> Remove(mgr.stream_buffers, client_id),
    connection_metadata |-> Remove(mgr.connection_metadata, client_id) ]
disconnect_KeepBuffer(mgr, client_id) ==
  [ active_connections  |-> Remove(mgr.active_connections, client_id),
    stream_buffers      |-> mgr.stream_buffers,
    connection_metadata |-> Remove(mgr.connection_metadata, client_id) ]
disconnect(mgr, client_id) ==
  [ active_connections  |-> Remove(mgr.active_connections, client_id),
    stream_buffers      |-> Remove(mgr.stream_buffers, client_id),
    connection_metadata |-> Remove(mgr.connection_metadata, client_id) ]

\* WebSocketConnectionManager.get_connection_stats: None (some = FALSE), the
\* metadata merged with the buffer's statistics, or ZeroDivisionError
\* WebSocketConnectionManager.send_message, given what send_json does on
\* the session's handle (o, see SendOutcomes): what it returns, whether
\* send_json was called, and whether an exception leaves the method
send_message_Propagates(mgr, client_id, o) ==
  IF client_id \notin DOMAIN mgr.active_connections
  THEN [ret |-> FALSE, attempted |-> FALSE, raised |-> FALSE]
  ELSE [ret |-> o \in {"delivered", "dropped"}, attempted |-> TRUE,
        raised |-> o \in {"disconnect", "error"}]
send_message(mgr, client_id, o) ==
  IF client_id \notin DOMAIN mgr.active_connections
  THEN [ret |-> FALSE, attempted |-> FALSE, raised |-> FALSE]
  ELSE [ret |-> o \in {"delivered", "dropped"}, attempted |-> TRUE,
        raised |-> FALSE]

\* alias: whether the returned dict is the stored metadata dict itself; it
\* is not, being made by .copy(), and its values are numbers
get_connection_stats_NoCopy(mgr, client_id) ==
  IF client_id \notin DOMAIN mgr.connection_metadata
  THEN [some |-> FALSE, raised |-> FALSE, stats |-> << >>, alias |-> FALSE]
  ELSE IF client_id \in DOMAIN mgr.stream_buffers
  THEN IF mgr.stream_buffers[client_id].sample_rate = 0
       THEN [some |-> FALSE, raised |-> TRUE, stats |-> << >>, alias |-> FALSE]
       ELSE [some |-> TRUE, raised |-> FALSE,
             stats |-> << mgr.connection_metadata[client_id],
                          get_stats(mgr.stream_buffers[client_id]) >>,
             alias |-> TRUE]
  ELSE [some |-> TRUE, raised |-> FALSE,
        stats |-> << mgr.connection_metadata[client_id] >>, alias |-> TRUE]
get_connection_stats(mgr, client_id) ==
  IF client_id \notin DOMAIN mgr.connection_metadata
  THEN [some |-> FALSE, raised |-> FALSE, stats |-> << >>, alias |-> FALSE]
  ELSE IF client_id \in DOMAIN mgr.stream_buffers
  THEN IF mgr.stream_buffers[client_id].sample_rate = 0
       THEN [some |-> FALSE, raised |-> TRUE, stats |-> << >>, alias |-> FALSE]
       ELSE [some |-> TRUE, raised |-> FALSE,
             stats |-> << mgr.connection_metadata[client_id],
                          get_stats(mgr.stream_buffers[client_id]) >>,
             alias |-> FALSE]
  ELSE [some |-> TRUE, raised |-> FALSE,
        stats |-> << mgr.connection_metadata[client_id] >>, alias |-> FALSE]

\* process_audio_chunk up to the call of self.model.detect: the manager
\* afterwards, whether get_processing_chunk gave a window and which, whether
\* detect is called, and with which arguments
process_audio_chunk_BufferRate(mgr, client_id, audio_data, sample_rate, t) ==
  IF client_id \notin DOMAIN mgr.stream_buffers
  THEN [mgr |-> mgr, some |-> FALSE, window |-> << >>, called |-> FALSE,
        audio |-> << >>, sr |-> sample_rate]
  ELSE LET buffer == [mgr.stream_buffers[client_id] EXCEPT !.sample_rate = sample_rate]
           got == get_processing_chunk(add_chunk(buffer, audio_data), t)
       IN [mgr    |-> [mgr EXCEPT !.stream_buffers[client_id] = got.buf],
           some   |-> got.some,
           window |-> got.chunk,
           called |-> got.some,
           audio  |-> got.chunk,
           sr     |-> mgr.stream_buffers[client_id].sample_rate]
process_audio_chunk_KeepsRate(mgr, client_id, audio_data, sample_rate, t) ==
  IF client_id \notin DOMAIN mgr.stream_buffers
  THEN [mgr |-> mgr, some |-> FALSE, window |-> << >>, called |-> FALSE,
        audio |-> << >>, sr |-> sample_rate]
  ELSE LET buffer == mgr.stream_buffers[client_id]
           got == get_processing_chunk(add_chunk(buffer, audio_data), t)
       IN [mgr    |-> [mgr EXCEPT !.stream_buffers[client_id] = got.buf],
           some   |-> got.some,
           window |-> got.chunk,
           called |-> got.some,
           audio  |-> got.chunk,
           sr     |-> sample_rate]
process_audio_chunk(mgr, client_id, audio_data, sample_rate, t) ==
  IF client_id \notin DOMAIN mgr.stream_buffers
  THEN [mgr |-> mgr, some |-> FALSE, window |-> << >>, called |-> FALSE,
        audio |-> << >>, sr |-> sample_rate]
  ELSE LET buffer == [mgr.stream_buffers[client_id] EXCEPT !.sample_rate = sample_rate]
           got == get_processing_chunk(add_chunk(buffer, audio_data), t)
       IN [mgr    |-> [mgr EXCEPT !.stream_buffers[client_id] = got.buf],
           some   |-> got.some,
           window |-> got.chunk,
           called |-> got.some,
           audio  |-> got.chunk,
           sr     |-> sample_rate]

\* process_audio_chunk after detect has returned: the metadata update
detect_returned_NoCount(mgr, client_id) == mgr
detect_returned(mgr, client_id) ==
  IF client_id \in DOMAIN mgr.connection_metadata
  THEN [mgr EXCEPT !.connection_metadata[client_id].total_detections = @ + 1]
  ELSE mgr

\* websocket_endpoint: connection_metadata[client_id]['total_messages'] += 1
count_message(mgr, client_id) ==
  IF client_id \in DOMAIN mgr.connection_metadata
  THEN [mgr EXCEPT !.connection_metadata[client_id].total_messages = @ + 1]
  ELSE mgr

\* websocket_endpoint, message_type == "config"
apply_config_AcceptsZero(mgr, client_id, sample_rate, chunk_duration) ==
  IF client_id \in DOMAIN mgr.stream_buffers
  THEN [mgr EXCEPT !.stream_buffers[client_id] =
          [@ EXCEPT !.sample_rate =
                      IF sample_rate # Absent THEN sample_rate ELSE @,
                    !.chunk_duration =
                      IF chunk_duration # Absent THEN chunk_duration ELSE @]]
  ELSE mgr
apply_config(mgr, client_id, sample_rate, chunk_duration) ==
  IF client_id \in DOMAIN mgr.stream_buffers
  THEN [mgr EXCEPT !.stream_buffers[client_id] =
          [@ EXCEPT !.sample_rate =
                      IF sample_rate # Absent /\ sample_rate # 0 THEN sample_rate ELSE @,
                    !.chunk_duration =
                      IF chunk_duration # Absent /\ chunk_duration # 0
                      THEN chunk_duration ELSE @]]
  ELSE mgr

\* ------------------------------------------------------------------ state
VARIABLES
  now,          \* time.time(), in ticks
  manager,      \* connection_manager: the three registry maps
  pc,           \* where each connection's websocket_endpoint coroutine stands
  alive,        \* whether the connection's transport is still up
  client_id,    \* websocket_endpoint's local client_id (NoId is None)
  out,          \* the envelope the coroutine is about to send_json
  loc,          \* the arguments of the detect call in progress
  last,         \* history of the envelope being handled (see NewLast)
  received,     \* history: envelopes the loops have taken from the transports
  limit,        \* how many envelopes the loops take in this run
  arrived,      \* history: audio samples the connection has decoded
  registered,   \* history: connect() has stored this connection's session
  disconnects,  \* history: calls of manager.disconnect by this coroutine
  exit_at,      \* history: where the coroutine stood when it left for finally
  cut,          \* history: the transport went down during a detect call
  ub,           \* a stand-alone AudioStreamBuffer
  uarrived,     \* history: samples added to ub
  ucleared,     \* history: value of uarrived at the last clear()
  ulast,        \* history: the last call on ub and what it returned
  uops,         \* history: the number of calls on ub
  reg,          \* history: the last direct call of a manager method (see NewReg)
  codec         \* a stand-alone payload on its way through encoding and decoding

vars == << now, manager, pc, alive, client_id, out, loc, last, received, limit,
           arrived, registered, disconnects, exit_at, cut,
           ub, uarrived, ucleared, ulast, uops, reg, codec >>
svars == << manager, pc, alive, client_id, out, loc, last, received, limit,
            arrived, registered, disconnects, exit_at, cut >>
\* the variables of the stand-alone buffer and of the stand-alone codec
uvars == << ub, uarrived, ucleared, ulast, uops, codec >>

NoCall == [audio |-> << >>, sr |-> 0]
\* history of the envelope a coroutine is handling, kept until the coroutine
\* is back at receive_json after a reply (or until the next envelope, when
\* there was no reply): its type, whether its payload decoded, its raw
\* sample_rate field, whether get_processing_chunk gave a window and which,
\* how often detect was called, what detect did, and the replies attempted;
\* for an audio_chunk, until detect has ended, also what its payload was:
\* "missing", "undecodable" (decode_audio_data raised), "flat" (an array of
\* samples) or "nested" (an array of rows)
NewLast(type) ==
  [ type |-> type, decodable |-> FALSE, msg_sr |-> Absent, window |-> "na",
    chunk |-> << >>, calls |-> 0, ret |-> "none", replies |-> << >>,
    payload |-> "na" ]
\* the last call on the stand-alone buffer, what it returned (or was given),
\* and what the call before it was and whether that returned a window
NewULast == [op |-> "init", some |-> FALSE, chunk |-> << >>,
             prev |-> "init", prevsome |-> FALSE]
ULast(op, some, chunk, before) ==
  [op |-> op, some |-> some, chunk |-> chunk,
   prev |-> before.op, prevsome |-> before.some]

\* the direct calls of the manager's methods: whether this run makes any,
\* the last one (op, client_id, the transport's answer to a send attempt,
\* what the method returned), how many were made, the ids that were
\* disconnected and not connected again since, and whether the id of the
\* last call was among them when the call was made
NoSnapshot == [some |-> FALSE, raised |-> FALSE, stats |-> << >>, alias |-> FALSE]
NewReg(on) ==
  [ on |-> on, op |-> "init", id |-> NoId, outcome |-> "none", ret |-> "none",
    n |-> 0, gone |-> {}, again |-> FALSE, snap |-> NoSnapshot ]

\* a payload between the client's encoding and the server's decoding: the
\* samples the client started from (given says whether there are any), the
\* audio_data and encoding fields as sent, and what decode_audio_data made
\* of them; stage is "samples", "wire" or "decoded" ("off": none in this run)
Codec(stage, given, samples, data, encoding, result) ==
  [ stage |-> stage, given |-> given, samples |-> samples, data |-> data,
    encoding |-> encoding, result |-> result ]
NoCodec == Codec("off", FALSE, << >>, << >>, "", << >>)

SInit ==
  /\ manager = NewManager
  /\ pc = [c \in Conns |-> "handshake"]
  /\ alive = [c \in Conns |-> TRUE]
  /\ client_id = [c \in Conns |-> NoId]
  /\ out = [c \in Conns |-> NoReply]
  /\ loc = [c \in Conns |-> NoCall]
  /\ last = [c \in Conns |-> NewLast("none")]
  /\ received = 0
  /\ limit = MaxMessages
  /\ arrived = [c \in Conns |-> 0]
  /\ registered = [c \in Conns |-> FALSE]
  /\ disconnects = [c \in Conns |-> 0]
  /\ exit_at = [c \in Conns |-> "none"]
  /\ cut = [c \in Conns |-> FALSE]
  /\ reg = NewReg(FALSE)

UInit ==
  /\ ub = AudioStreamBuffer(DefaultSampleRate, DefaultChunkDuration,
                            DefaultOverlapDuration, DefaultMinDuration)
  /\ uarrived = 0
  /\ ucleared = 0
  /\ ulast = NewULast
  /\ uops = 0
  /\ codec = NoCodec

Init == now = StartTime /\ SInit /\ UInit

\* one connection only: the transport of w1 is never opened
SoloInit ==
  /\ now = StartTime
  /\ manager = NewManager
  /\ pc = [c \in Conns |-> IF c = "w2" THEN "handshake" ELSE "done"]
  /\ alive = [c \in Conns |-> c = "w2"]
  /\ client_id = [c \in Conns |-> NoId]
  /\ out = [c \in Conns |-> NoReply]
  /\ loc = [c \in Conns |-> NoCall]
  /\ last = [c \in Conns |-> NewLast("none")]
  /\ received = 0
  /\ limit = MaxSoloMessages
  /\ arrived = [c \in Conns |-> 0]
  /\ registered = [c \in Conns |-> FALSE]
  /\ disconnects = [c \in Conns |-> 0]
  /\ exit_at = [c \in Conns |-> "none"]
  /\ cut = [c \in Conns |-> FALSE]
  /\ reg = NewReg(FALSE)
  /\ UInit

\* time passes (also while a detect call is running)
Tick ==
  /\ now < StartTime + MaxTicks
  /\ now' = now + 1
  /\ UNCHANGED << svars, uvars, reg >>

\* self.model.detect is an ordinary call made on the event loop's thread: no
\* other coroutine runs until it returns
LoopFree == \A c \in Conns : pc[c] # "detect"

\* the coroutine leaves the loop or the try block: the finally clause of
\* websocket_endpoint
Finish_NoCleanup(c, mgr) ==
  /\ pc' = [pc EXCEPT ![c] = "done"]
  /\ exit_at' = [exit_at EXCEPT ![c] = pc[c]]
  /\ out' = [out EXCEPT ![c] = NoReply]
  /\ loc' = [loc EXCEPT ![c] = NoCall]
  /\ last' = [last EXCEPT ![c] = NewLast("none")]
  /\ cut' = cut
  /\ manager' = mgr
  /\ disconnects' = disconnects
Finish_Reopens(c, mgr) ==
  /\ pc' = [pc EXCEPT ![c] = IF pc[c] = "recv" /\ disconnects[c] = 0
                              THEN "handshake" ELSE "done"]
  /\ exit_at' = [exit_at EXCEPT ![c] = pc[c]]
  /\ out' = [out EXCEPT ![c] = NoReply]
  /\ loc' = [loc EXCEPT ![c] = NoCall]
  /\ last' = [last EXCEPT ![c] = NewLast("none")]
  /\ cut' = cut
  /\ IF client_id[c] # NoId
     THEN /\ manager' = disconnect(mgr, client_id[c])
          /\ disconnects' = [disconnects EXCEPT ![c] = @ + 1]
     ELSE /\ manager' = mgr
          /\ disconnects' = disconnects
Finish(c, mgr) ==
  /\ pc' = [pc EXCEPT ![c] = "done"]
  /\ exit_at' = [exit_at EXCEPT ![c] = pc[c]]
  /\ out' = [out EXCEPT ![c] = NoReply]
  /\ loc' = [loc EXCEPT ![c] = NoCall]
  /\ last' = [last EXCEPT ![c] = NewLast("none")]
  /\ cut' = cut
  /\ IF client_id[c] # NoId
     THEN /\ manager' = disconnect(mgr, client_id[c])
          /\ disconnects' = [disconnects EXCEPT ![c] = @ + 1]
     ELSE /\ manager' = mgr
          /\ disconnects' = disconnects

\* the client goes away, or the network drops the connection
ClientClose(c) ==
  /\ alive[c]
  /\ pc[c] # "done"
  /\ alive' = [alive EXCEPT ![c] = FALSE]
  /\ cut' = [cut EXCEPT ![c] = (pc[c] = "detect")]
  /\ UNCHANGED << now, manager, pc, client_id, out, loc, last, received, limit,
                  arrived, registered, disconnects, exit_at, uvars, reg >>

Handshake_DefaultsMalformed(c, m) ==
  /\ pc[c] = "handshake"
  /\ LoopFree
  /\ alive[c]
  /\ client_id' = [client_id EXCEPT ![c] =
                     IF m.client_id = NoId THEN Uuid(c) ELSE m.client_id]
  /\ pc' = [pc EXCEPT ![c] = "accept"]
  /\ last' = [last EXCEPT ![c] = NewLast(FirstType(m))]
  /\ UNCHANGED << manager, out, loc, disconnects, exit_at, cut >>
  /\ UNCHANGED << now, alive, received, limit, arrived, registered, uvars, reg >>
\* initial_message = await websocket.receive_json(); client_id = ...
Handshake(c, m) ==
  /\ pc[c] = "handshake"
  /\ LoopFree
  /\ alive[c]
  /\ IF m.type = "malformed"
     THEN /\ Finish(c, manager)
          /\ UNCHANGED client_id
     ELSE /\ client_id' = [client_id EXCEPT ![c] =
                             IF m.client_id = NoId THEN Uuid(c) ELSE m.client_id]
          /\ pc' = [pc EXCEPT ![c] = "accept"]
          /\ last' = [last EXCEPT ![c] = NewLast(FirstType(m))]
          /\ UNCHANGED << manager, out, loc, disconnects, exit_at, cut >>
  /\ UNCHANGED << now, alive, received, limit, arrived, registered, uvars, reg >>

\* the first receive_json raises WebSocketDisconnect
HandshakeDisconnect(c) ==
  /\ pc[c] = "handshake"
  /\ LoopFree
  /\ ~alive[c]
  /\ Finish(c, manager)
  /\ UNCHANGED << now, alive, client_id, received, limit, arrived, registered, uvars, reg >>

\* await connection_manager.connect(websocket, client_id): accept() returns
\* and the session is stored
Accept(c) ==
  /\ pc[c] = "accept"
  /\ LoopFree
  /\ manager' = connect(manager, c, client_id[c], now)
  /\ registered' = [registered EXCEPT ![c] = TRUE]
  /\ out' = [out EXCEPT ![c] = Reply("connected", client_id[c])]
  /\ pc' = [pc EXCEPT ![c] = "send_connected"]
  /\ UNCHANGED << now, alive, client_id, loc, last, received, limit, arrived,
                  disconnects, exit_at, cut, uvars, reg >>

\* accept() raises on a transport that is gone
AcceptFails(c) ==
  /\ pc[c] = "accept"
  /\ LoopFree
  /\ ~alive[c]
  /\ Finish(c, manager)
  /\ UNCHANGED << now, alive, client_id, received, limit, arrived, registered, uvars, reg >>

\* what send_json can do: deliver; or, on a transport that is gone, return
\* without delivering, raise WebSocketDisconnect, or raise another exception
SendOutcomes(c) ==
  IF alive[c] THEN {"delivered"} ELSE {"dropped", "disconnect", "error"}

SendPcs == {"send_connected", "send_audio", "send_loop", "send_handler"}

\* where the coroutine goes after send_json at position p ended with outcome
\* o: "recv" (next iteration), another send (an except clause replies with an
\* error envelope), or "done" (break, or the exception leaves the loop)
after_send_CloseAfterReply(p, o) ==
  IF p = "send_loop" THEN "done"
  ELSE IF o \in {"delivered", "dropped"} THEN "recv"
  ELSE IF p = "send_audio" THEN "send_loop"
  ELSE "done"
after_send_BreakAfterHandler(p, o) ==
  IF p = "send_handler" THEN "done"
  ELSE IF o \in {"delivered", "dropped"} THEN "recv"
  ELSE IF p = "send_audio" THEN "send_loop"
  ELSE "done"
after_send(p, o) ==
  IF o \in {"delivered", "dropped"} THEN "recv"
  ELSE IF p = "send_audio" THEN "send_loop"
  ELSE IF p = "send_loop" /\ o = "error" THEN "send_handler"
  ELSE "done"

\* str(e) of the exception a failed send_json raised
SendError(o) == IF o = "disconnect" THEN "WebSocketDisconnect" ELSE "send failed"

\* await websocket.send_json(...), at any of its positions
Send(c, o) ==
  /\ pc[c] \in SendPcs
  /\ LoopFree
  /\ o \in SendOutcomes(c)
  /\ LET next == after_send(pc[c], o)
         sent == [type |-> out[c].type, delivered |-> (o = "delivered")]
     IN IF next = "done"
        THEN Finish(c, manager)
        ELSE /\ pc' = [pc EXCEPT ![c] = next]
             /\ out' = [out EXCEPT ![c] =
                          IF next = "recv" THEN NoReply
                          ELSE Reply("error", SendError(o))]
             /\ last' = [last EXCEPT ![c] =
                           IF next = "recv" THEN NewLast("none")
                           ELSE [@ EXCEPT !.replies = Append(@, sent)]]
             /\ UNCHANGED << manager, loc, disconnects, exit_at, cut >>
  /\ UNCHANGED << now, alive, client_id, received, limit, arrived, registered, uvars, reg >>

\* the loop's receive_json raises WebSocketDisconnect: break
RecvDisconnect(c) ==
  /\ pc[c] = "recv"
  /\ LoopFree
  /\ ~alive[c]
  /\ Finish(c, manager)
  /\ UNCHANGED << now, alive, client_id, received, limit, arrived, registered, uvars, reg >>

\* the part of every Recv action that takes an envelope from the transport
Take(c) ==
  /\ pc[c] = "recv"
  /\ LoopFree
  /\ alive[c]
  /\ received < limit
  /\ received' = received + 1
  /\ UNCHANGED << now, alive, client_id, limit, registered, disconnects, exit_at, cut, uvars, reg >>

\* the coroutine replies with envelope r at position p
ReplyAt(c, p, r) ==
  /\ pc' = [pc EXCEPT ![c] = p]
  /\ out' = [out EXCEPT ![c] = r]

\* receive_json or message.get raises: the loop's except Exception
RecvMalformed(c) ==
  /\ Take(c)
  /\ last' = [last EXCEPT ![c] = NewLast("malformed")]
  /\ ReplyAt(c, "send_handler", Reply("error", "Expecting value"))
  /\ UNCHANGED << manager, loc, arrived >>

\* message_type == "audio_chunk"
RecvAudio(c, m) ==
  /\ Take(c)
  /\ m \in AudioMessages
  /\ LET mgr1 == count_message(manager, client_id[c])
         sample_rate == IF m.sample_rate = Absent THEN DefaultSampleRate
                        ELSE m.sample_rate
         dec == decode_audio_data(m.audio_data, m.encoding,
                                  SampleBase(c) + arrived[c])
         p == process_audio_chunk(mgr1, client_id[c], dec.samples, sample_rate, now)
         l0 == [NewLast("audio_chunk") EXCEPT !.msg_sr = m.sample_rate]
         shape == IF m.audio_data.form = "nested" THEN "nested" ELSE "flat"
     IN IF m.audio_data.form = "absent"
        THEN /\ ReplyAt(c, "send_loop", Reply("error", "Missing audio_data"))
             /\ manager' = mgr1
             /\ last' = [last EXCEPT ![c] = [l0 EXCEPT !.payload = "missing"]]
             /\ UNCHANGED << loc, arrived >>
        ELSE IF ~dec.ok
        THEN /\ ReplyAt(c, "send_loop", Reply("error", dec.err))
             /\ manager' = mgr1
             /\ last' = [last EXCEPT ![c] = [l0 EXCEPT !.payload = "undecodable"]]
             /\ UNCHANGED << loc, arrived >>
        ELSE /\ manager' = p.mgr
             /\ arrived' = [arrived EXCEPT ![c] = @ + Len(dec.samples)]
             /\ IF p.called
                THEN /\ pc' = [pc EXCEPT ![c] = "detect"]
                     /\ loc' = [loc EXCEPT ![c] = [audio |-> p.audio, sr |-> p.sr]]
                     /\ last' = [last EXCEPT ![c] =
                                   [l0 EXCEPT !.decodable = TRUE,
                                              !.window = IF p.some THEN "some" ELSE "none",
                                              !.chunk = p.window, !.calls = 1,
                                              !.payload = shape]]
                ELSE /\ pc' = [pc EXCEPT ![c] = "recv"]
                     /\ loc' = loc
                     /\ last' = [last EXCEPT ![c] =
                                   [l0 EXCEPT !.decodable = TRUE,
                                              !.window = IF p.some THEN "some" ELSE "none",
                                              !.msg_sr = Absent]]
             /\ out' = [out EXCEPT ![c] = NoReply]

\* result = self.model.detect(...) returns r; the metadata is updated and the
\* result goes out as detection_result
DetectReturn(c, r) ==
  /\ pc[c] = "detect"
  /\ manager' = detect_returned(manager, client_id[c])
  /\ ReplyAt(c, "send_audio", Reply("detection_result", r))
  /\ loc' = [loc EXCEPT ![c] = NoCall]
  /\ last' = [last EXCEPT ![c].ret = r, ![c].chunk = << >>, ![c].payload = "na"]
  /\ UNCHANGED << now, alive, client_id, received, limit, arrived, registered,
                  disconnects, exit_at, cut, uvars, reg >>

\* detect raises: DetectionError, caught by the except around the audio branch
DetectRaise_Closes(c) ==
  /\ pc[c] = "detect"
  /\ Finish(c, manager)
  /\ UNCHANGED << now, alive, client_id, received, limit, arrived, registered, uvars, reg >>
DetectRaise_Counts(c) ==
  /\ pc[c] = "detect"
  /\ ReplyAt(c, "send_loop", Reply("error", "Detection failed"))
  /\ loc' = [loc EXCEPT ![c] = NoCall]
  /\ last' = [last EXCEPT ![c].ret = "raised", ![c].chunk = << >>,
                           ![c].payload = "na"]
  /\ manager' = detect_returned(manager, client_id[c])
  /\ UNCHANGED << now, alive, client_id, received, limit, arrived,
                  registered, disconnects, exit_at, cut, uvars, reg >>
DetectRaise(c) ==
  /\ pc[c] = "detect"
  /\ ReplyAt(c, "send_loop", Reply("error", "Detection failed"))
  /\ loc' = [loc EXCEPT ![c] = NoCall]
  /\ last' = [last EXCEPT ![c].ret = "raised", ![c].chunk = << >>,
                           ![c].payload = "na"]
  /\ UNCHANGED << now, manager, alive, client_id, received, limit, arrived,
                  registered, disconnects, exit_at, cut, uvars, reg >>

\* message_type == "config"
RecvConfig(c, m) ==
  /\ Take(c)
  /\ m \in ConfigMessages
  /\ manager' = apply_config(count_message(manager, client_id[c]), client_id[c],
                             m.sample_rate, m.chunk_duration)
  /\ last' = [last EXCEPT ![c] = NewLast("config")]
  /\ ReplyAt(c, "send_loop", Reply("config_updated", ""))
  /\ UNCHANGED << loc, arrived >>

\* message_type == "ping"
RecvPing(c) ==
  /\ Take(c)
  /\ manager' = count_message(manager, client_id[c])
  /\ last' = [last EXCEPT ![c] = NewLast("ping")]
  /\ ReplyAt(c, "send_loop", Reply("pong", ""))
  /\ UNCHANGED << loc, arrived >>

\* message_type == "stats"
RecvStats(c) ==
  /\ Take(c)
  /\ manager' = count_message(manager, client_id[c])
  /\ last' = [last EXCEPT ![c] = NewLast("stats")]
  /\ LET st == get_connection_stats(manager', client_id[c])
     IN IF st.raised
        THEN ReplyAt(c, "send_handler", Reply("error", "division by zero"))
        ELSE ReplyAt(c, "send_loop", Reply("stats", st))
  /\ UNCHANGED << loc, arrived >>

\* any other message_type
RecvUnknown(c, m) ==
  /\ Take(c)
  /\ m \in UnknownMessages
  /\ manager' = count_message(manager, client_id[c])
  /\ last' = [last EXCEPT ![c] = NewLast(message_type(m))]
  /\ ReplyAt(c, "send_loop", Reply("error", UnknownTypeError(message_type(m))))
  /\ UNCHANGED << loc, arrived >>

Next ==
  \/ Tick
  \/ \E c \in Conns : ClientClose(c)
  \/ \E c \in Conns : \E m \in FirstMessages(c) : Handshake(c, m)
  \/ \E c \in Conns : HandshakeDisconnect(c)
  \/ \E c \in Conns : Accept(c)
  \/ \E c \in Conns : AcceptFails(c)
  \/ \E c \in Conns : \E o \in {"delivered", "dropped", "disconnect", "error"} : Send(c, o)
  \/ \E c \in Conns : RecvDisconnect(c)
  \/ \E c \in Conns : RecvMalformed(c)
  \/ \E c \in Conns : \E m \in AudioMessages : RecvAudio(c, m)
  \/ \E c \in Conns : \E r \in Results : DetectReturn(c, r)
  \/ \E c \in Conns : DetectRaise(c)
  \/ \E c \in Conns : \E m \in ConfigMessages : RecvConfig(c, m)
  \/ \E c \in Conns : RecvPing(c)
  \/ \E c \in Conns : RecvStats(c)
  \/ \E c \in Conns : \E m \in UnknownMessages : RecvUnknown(c, m)

Spec == Init /\ [][Next]_vars

SoloSpec == SoloInit /\ [][Next]_vars

\* the steps connection c's coroutine takes without a new envelope from the
\* client: the event loop resumes a coroutine whose awaited call has
\* completed, and a detect call comes to an end
Resume(c) ==
  \/ HandshakeDisconnect(c)
  \/ Accept(c)
  \/ AcceptFails(c)
  \/ \E o \in {"delivered", "dropped", "disconnect", "error"} : Send(c, o)
  \/ RecvDisconnect(c)
  \/ \E r \in Results : DetectReturn(c, r)
  \/ DetectRaise(c)

\* one connection, with every resumable coroutine eventually resumed
LiveSoloSpec == SoloSpec /\ \A c \in Conns : WF_vars(Resume(c))

\* ------------------------------------- the manager's methods called directly
\* the client ids used in direct calls
RegIds == ClientIds \cup {Uuid("w2")}
\* the variables of the websocket_endpoint coroutines
dvars == << pc, client_id, out, loc, last, received, limit, arrived,
            registered, disconnects, exit_at, cut >>

\* no coroutine runs; both websockets are open handles
RegInit ==
  /\ now = StartTime
  /\ manager = NewManager
  /\ pc = [c \in Conns |-> "done"]
  /\ alive = [c \in Conns |-> TRUE]
  /\ client_id = [c \in Conns |-> NoId]
  /\ out = [c \in Conns |-> NoReply]
  /\ loc = [c \in Conns |-> NoCall]
  /\ last = [c \in Conns |-> NewLast("none")]
  /\ received = 0
  /\ limit = 0
  /\ arrived = [c \in Conns |-> 0]
  /\ registered = [c \in Conns |-> FALSE]
  /\ disconnects = [c \in Conns |-> 0]
  /\ exit_at = [c \in Conns |-> "none"]
  /\ cut = [c \in Conns |-> FALSE]
  /\ reg = NewReg(TRUE)
  /\ UInit

RegFree == reg.on /\ reg.n < MaxRegOps

\* the record of a direct call
Called(op, id, outcome, ret, gone) ==
  [ on |-> TRUE, op |-> op, id |-> id, outcome |-> outcome, ret |-> ret,
    n |-> reg.n + 1, gone |-> gone, again |-> id \in reg.gone,
    snap |-> NoSnapshot ]

\* await manager.connect(websocket, client_id) on an open websocket
RConnect(c, id) ==
  /\ RegFree
  /\ alive[c]
  /\ manager' = connect(manager, c, id, now)
  /\ reg' = Called("connect", id, "none", "none", reg.gone \ {id})
  /\ UNCHANGED << now, alive, dvars, uvars >>

\* manager.disconnect(client_id)
RDisconnect(id) ==
  /\ RegFree
  /\ manager' = disconnect(manager, id)
  /\ reg' = Called("disconnect", id, "none", "none", reg.gone \cup {id})
  /\ UNCHANGED << now, alive, dvars, uvars >>

\* await manager.process_audio_chunk(client_id, audio, sample_rate), with a
\* detect call that returns
RAudio(id, k, sr) ==
  /\ RegFree
  /\ LET p == process_audio_chunk(manager, id, Samples(10 * reg.n, k), sr, now)
     IN manager' = IF p.called THEN detect_returned(p.mgr, id) ELSE p.mgr
  /\ reg' = Called("audio", id, "none", "none", reg.gone)
  /\ UNCHANGED << now, alive, dvars, uvars >>

\* await manager.send_message(client_id, message)
RSend(id, o) ==
  /\ RegFree
  /\ o \in (IF id \in DOMAIN manager.active_connections
            THEN SendOutcomes(manager.active_connections[id])
            ELSE {"none"})
  /\ LET r == send_message(manager, id, o)
     IN reg' = Called("send", id, IF r.attempted THEN o ELSE "none",
                      IF r.raised THEN "raised"
                      ELSE IF r.ret THEN "true" ELSE "false",
                      reg.gone)
  /\ UNCHANGED << now, manager, alive, dvars, uvars >>

\* manager.get_connection_stats(client_id)
RGet(id) ==
  /\ RegFree
  /\ LET r == get_connection_stats(manager, id)
     IN reg' = [Called("get", id, "none",
                       IF r.raised THEN "raised"
                       ELSE IF r.some THEN "stats" ELSE "absent",
                       reg.gone) EXCEPT !.snap = r]
  /\ UNCHANGED << now, manager, alive, dvars, uvars >>

\* the caller writes to the dict that get_connection_stats returned
\* (stats['total_messages'] += 1); the write reaches the stored metadata
\* only if the dict is the stored one
RMutate(id) ==
  /\ RegFree
  /\ reg.op \in {"get", "mutate"}
  /\ reg.id = id
  /\ reg.snap.some
  /\ reg' = [Called("mutate", id, "none", "stats", reg.gone) EXCEPT
               !.snap = [reg.snap EXCEPT !.stats[1].total_messages = @ + 1]]
  /\ manager' = IF reg.snap.alias /\ id \in DOMAIN manager.connection_metadata
                THEN [manager EXCEPT
                        !.connection_metadata[id].total_messages = @ + 1]
                ELSE manager
  /\ UNCHANGED << now, alive, dvars, uvars >>

\* the transport of a websocket goes down
RClose(c) ==
  /\ reg.on
  /\ alive[c]
  /\ alive' = [alive EXCEPT ![c] = FALSE]
  /\ UNCHANGED << now, manager, dvars, uvars, reg >>

RegNext ==
  \/ Tick
  \/ \E c \in Conns : \E id \in RegIds : RConnect(c, id)
  \/ \E id \in RegIds : RDisconnect(id)
  \/ \E id \in RegIds : \E k \in ChunkLens : \E sr \in MsgSampleRates : RAudio(id, k, sr)
  \/ \E id \in RegIds :
       \E o \in {"delivered", "dropped", "disconnect", "error", "none"} : RSend(id, o)
  \/ \E id \in RegIds : RGet(id)
  \/ \E id \in RegIds : RMutate(id)
  \/ \E c \in Conns : RClose(c)

RegSpec == RegInit /\ [][RegNext]_vars

\* the direct calls, or else the coroutine of one connection
ManagerSpec == (RegInit \/ SoloInit) /\ [][Next \/ RegNext]_vars

\* ------------------------------------------- a stand-alone AudioStreamBuffer
\* constructor arguments tried: sample rates, and durations in ticks
USampleRates == {1, 2}
UChunkDurations == {2, 4}
UOverlapDurations == {1}
UMinDurations == {1, 3}
\* numbers of samples in one add_chunk call
UChunkLens == {0, 1, 7}

UBufInit ==
  /\ now = StartTime
  /\ SInit
  /\ ub \in {AudioStreamBuffer(sr, cd, od, md) :
              sr \in USampleRates, cd \in UChunkDurations,
              od \in UOverlapDurations, md \in UMinDurations}
  /\ uarrived = 0
  /\ ucleared = 0
  /\ ulast = NewULast
  /\ uops = 0
  /\ codec = NoCodec

\* buffer.add_chunk(the next n samples)
UAdd(n) ==
  /\ uops < MaxOps
  /\ ub' = add_chunk(ub, Samples(uarrived, n))
  /\ uarrived' = uarrived + n
  /\ ulast' = ULast("add", FALSE, Samples(uarrived, n), ulast)
  /\ uops' = uops + 1
  /\ UNCHANGED << now, svars, reg, codec, ucleared >>

\* buffer.get_processing_chunk()
UGet ==
  /\ uops < MaxOps
  /\ LET got == get_processing_chunk(ub, now)
     IN /\ ub' = got.buf
        /\ ulast' = ULast("get", got.some, got.chunk, ulast)
  /\ uops' = uops + 1
  /\ UNCHANGED << now, svars, reg, codec, uarrived, ucleared >>

\* buffer.clear()
UClear ==
  /\ uops < MaxOps
  /\ ub' = clear(ub)
  /\ ucleared' = uarrived
  /\ ulast' = ULast("clear", FALSE, << >>, ulast)
  /\ uops' = uops + 1
  /\ UNCHANGED << now, svars, reg, codec, uarrived >>

\* time passes between calls
UTick ==
  /\ now < StartTime + MaxBufTicks
  /\ now' = now + 1
  /\ UNCHANGED << svars, uvars, reg >>

UNext ==
  \/ \E n \in UChunkLens : UAdd(n)
  \/ UGet
  \/ UClear
  \/ UTick

BufSpec == UBufInit /\ [][UNext]_vars

\* ------------------------------- a stand-alone buffer that is reconfigured
\* buffer.sample_rate = sample_rate, as process_audio_chunk and the config
\* branch of websocket_endpoint assign it
USetSampleRate(sr) ==
  /\ uops < MaxOps
  /\ ub' = [ub EXCEPT !.sample_rate = sr]
  /\ ulast' = ULast("set_sample_rate", FALSE, << >>, ulast)
  /\ uops' = uops + 1
  /\ UNCHANGED << now, svars, reg, codec, uarrived, ucleared >>

\* buffer.chunk_duration = chunk_duration, as the config branch assigns it
USetChunkDuration(cd) ==
  /\ uops < MaxOps
  /\ ub' = [ub EXCEPT !.chunk_duration = cd]
  /\ ulast' = ULast("set_chunk_duration", FALSE, << >>, ulast)
  /\ uops' = uops + 1
  /\ UNCHANGED << now, svars, reg, codec, uarrived, ucleared >>

ConfNext ==
  \/ UNext
  \/ \E sr \in USampleRates : USetSampleRate(sr)
  \/ \E cd \in UChunkDurations : USetChunkDuration(cd)

ConfSpec == UBufInit /\ [][ConfNext]_vars

\* -------------------------------------------------- the payload codec alone
\* how many samples the client encodes at once
MaxCodecLen == 2
\* how many characters a payload text made by hand has
MaxTextLen == 4

\* float32 values, written as the 32 bits of their representation read as a
\* signed integer: 0.0, 1.0, -1.0 and a NaN
F32 == {0, 1065353216, -1082130432, 2143289345}
\* the i-th byte (from the least significant) of a 32-bit pattern
ByteOf(v, i) == (v \div (256 ^ i)) % 256
\* the four bytes of a value in memory; tobytes and frombuffer use the
\* order of the host they run on, taken to be little-endian for client and
\* server alike
LittleEndian(v) == << ByteOf(v, 0), ByteOf(v, 1), ByteOf(v, 2), ByteOf(v, 3) >>

\* audio_data.astype(np.float32).tobytes()
RECURSIVE tobytes_BigEndian(_)
tobytes_BigEndian(a) ==
  IF a = << >> THEN << >>
  ELSE << ByteOf(Head(a), 3), ByteOf(Head(a), 2), ByteOf(Head(a), 1), ByteOf(Head(a), 0) >>
         \o tobytes_BigEndian(Tail(a))
RECURSIVE tobytes(_)
tobytes(a) ==
  IF a = << >> THEN << >> ELSE LittleEndian(Head(a)) \o tobytes(Tail(a))

\* the characters of a str as base64 sees them: the 64 digits by their
\* value, "=", and any character outside the alphabet
PadChar == 64
OtherChar == 65

\* base64.b64encode(s).decode('utf-8')
RECURSIVE b64encode(_)
b64encode(s) ==
  IF Len(s) = 0 THEN << >>
  ELSE IF Len(s) = 1
  THEN << s[1] \div 4, (s[1] % 4) * 16, PadChar, PadChar >>
  ELSE IF Len(s) = 2
  THEN << s[1] \div 4, (s[1] % 4) * 16 + s[2] \div 16, (s[2] % 16) * 4, PadChar >>
  ELSE << s[1] \div 4, (s[1] % 4) * 16 + s[2] \div 16,
          (s[2] % 16) * 4 + s[3] \div 64, s[3] % 64 >>
         \o b64encode(SubSeq(s, 4, Len(s)))

\* the outcome of a call: a value, or the class of the exception raised
Returned(v) == [ok |-> TRUE, kind |-> "", value |-> v]
RaisedKind(k) == [ok |-> FALSE, kind |-> k, value |-> << >>]

\* binascii.a2b_base64 without strict mode, as base64.b64decode calls it:
\* characters outside the alphabet are skipped, a complete pad sequence ends
\* the input, and an incomplete last group is an error
RECURSIVE a2b_base64(_, _, _, _, _)
a2b_base64(s, quad_pos, leftchar, pads, bin) ==
  IF s = << >>
  THEN IF quad_pos = 0 THEN Returned(bin) ELSE RaisedKind("binascii.Error")
  ELSE LET ch == Head(s)
       IN IF ch = PadChar
          THEN IF quad_pos >= 2 /\ quad_pos + pads + 1 >= 4
               THEN Returned(bin)
               ELSE a2b_base64(Tail(s), quad_pos, leftchar,
                               IF quad_pos >= 2 THEN pads + 1 ELSE pads, bin)
          ELSE IF ch >= 64
          THEN a2b_base64(Tail(s), quad_pos, leftchar, pads, bin)
          ELSE IF quad_pos = 0
          THEN a2b_base64(Tail(s), 1, ch, 0, bin)
          ELSE IF quad_pos = 1
          THEN a2b_base64(Tail(s), 2, ch % 16, 0,
                          Append(bin, leftchar * 4 + ch \div 16))
          ELSE IF quad_pos = 2
          THEN a2b_base64(Tail(s), 3, ch % 4, 0,
                          Append(bin, leftchar * 16 + ch \div 4))
          ELSE a2b_base64(Tail(s), 0, 0, 0, Append(bin, leftchar * 64 + ch))

\* JSON values: an array of numbers ("flat"), an array of two equally long
\* arrays of numbers ("nested"), an array of arrays of different lengths
\* ("ragged"), a number ("scalar"), an object; items are the numbers in
\* the order in which the text names them
JsonValue(shape, items) == [shape |-> shape, items |-> items]
\* audio_data as a Python value: a str, of which either the characters are
\* given (text) or the JSON value it spells (json), or a list of numbers
TextPayload(chars) ==
  [kind |-> "text", chars |-> chars, json |-> JsonValue("none", << >>)]
JsonPayload(v) == [kind |-> "json", chars |-> << >>, json |-> v]
ListPayload(a) == [kind |-> "list", chars |-> << >>, json |-> JsonValue("flat", a)]

\* base64.b64decode(data)
b64decode(data) ==
  IF data.kind # "text" THEN RaisedKind("TypeError")
  ELSE a2b_base64(data.chars, 0, 0, 0, << >>)

\* np.frombuffer(audio_bytes, dtype=np.float32)
RECURSIVE FromBytes(_)
FromBytes(s) ==
  IF s = << >> THEN << >>
  ELSE << s[1] + 256 * s[2] + 65536 * s[3]
            + 16777216 * (IF s[4] >= 128 THEN s[4] - 256 ELSE s[4]) >>
         \o FromBytes(SubSeq(s, 5, Len(s)))
frombuffer(s) ==
  IF Len(s) % 4 # 0 THEN RaisedKind("ValueError")
  ELSE Returned([ndim |-> 1, items |-> FromBytes(s)])

\* json.loads(data)
json_loads(data) ==
  IF data.kind = "list" THEN RaisedKind("TypeError")
  ELSE IF data.kind = "text" THEN RaisedKind("json.JSONDecodeError")
  ELSE Returned(data.json)
\* np.array(audio_list, dtype=np.float32)
np_array(v) ==
  IF v.shape = "flat" THEN Returned([ndim |-> 1, items |-> v.items])
  ELSE IF v.shape = "nested" THEN Returned([ndim |-> 2, items |-> v.items])
  ELSE IF v.shape = "scalar" THEN Returned([ndim |-> 0, items |-> v.items])
  ELSE IF v.shape = "ragged" THEN RaisedKind("ValueError")
  ELSE RaisedKind("TypeError")

\* decode_audio_data(data, encoding) on the characters of the payload
DecodeAudioData(data, encoding) ==
  IF encoding = "base64"
  THEN LET audio_bytes == b64decode(data)
       IN IF audio_bytes.ok THEN frombuffer(audio_bytes.value) ELSE audio_bytes
  ELSE IF encoding = "json"
  THEN LET audio_list == json_loads(data)
       IN IF audio_list.ok THEN np_array(audio_list.value) ELSE audio_list
  ELSE RaisedKind("ValueError")

\* client_example.py, send_audio_chunk: the audio_data field for an encoding
EncodeAudioData(a, encoding) ==
  IF encoding = "base64" THEN TextPayload(b64encode(tobytes(a)))
  ELSE ListPayload(a)

\* sequences over S of length at most n
SeqsUpTo(S, n) == UNION {[1..k -> S] : k \in 0..n}
\* the sample arrays the client starts from
CodecArrays == SeqsUpTo(F32, MaxCodecLen)
\* payload texts made by hand, out of two digits, "=" and a foreign character
CodecTexts == SeqsUpTo({0, 63, PadChar, OtherChar}, MaxTextLen)
\* strs that spell a JSON value
CodecJson ==
  {JsonValue("flat", a) : a \in CodecArrays}
  \cup {JsonValue("nested", << x, y >>) : x \in F32, y \in {0}}
  \cup {JsonValue("ragged", << x, x, x >>) : x \in F32}
  \cup {JsonValue("scalar", << x >>) : x \in F32}
  \cup {JsonValue("object", << >>)}
\* the (audio_data, encoding) pairs handed to decode_audio_data directly; a
\* str that spells JSON is not tried as base64
CodecInputs ==
  ({TextPayload(t) : t \in CodecTexts} \X Encodings)
  \cup ({JsonPayload(v) : v \in CodecJson} \X {"json", "other"})
  \cup ({ListPayload(a) : a \in CodecArrays \ {<< >>}} \X Encodings)

CodecInit ==
  /\ now = StartTime
  /\ SInit
  /\ ub = AudioStreamBuffer(DefaultSampleRate, DefaultChunkDuration,
                            DefaultOverlapDuration, DefaultMinDuration)
  /\ uarrived = 0
  /\ ucleared = 0
  /\ ulast = NewULast
  /\ uops = 0
  /\ \/ \E a \in CodecArrays :
          codec = Codec("samples", TRUE, a, << >>, "", << >>)
     \/ \E i \in CodecInputs :
          codec = Codec("wire", FALSE, << >>, i[1], i[2], << >>)

\* the client builds the audio_data field
CEncode(encoding) ==
  /\ codec.stage = "samples"
  /\ codec' = [codec EXCEPT !.stage = "wire",
                            !.data = EncodeAudioData(codec.samples, encoding),
                            !.encoding = encoding]
  /\ UNCHANGED << now, svars, reg, ub, uarrived, ucleared, ulast, uops >>

\* the server calls decode_audio_data(audio_data_str, encoding)
CDecode ==
  /\ codec.stage = "wire"
  /\ codec' = [codec EXCEPT !.stage = "decoded",
                            !.result = DecodeAudioData(codec.data, codec.encoding)]
  /\ UNCHANGED << now, svars, reg, ub, uarrived, ucleared, ulast, uops >>

CodecNext ==
  \/ \E e \in {"base64", "json"} : CEncode(e)
  \/ CDecode

CodecSpec == CodecInit /\ [][CodecNext]_vars

\* ================================================================ claims
\* a step of the stand-alone buffer that is a call of get_processing_chunk
UGetStep == uops' = uops + 1 /\ ulast'.op = "get"
\* the whole number of samples that a duration stands for at the buffer's rate
UMinSamples == SamplesIn(ub.sample_rate, ub.min_duration)
UChunkSamples == SamplesIn(ub.sample_rate, ub.chunk_duration)
\* the interval condition of the claims, at the moment of the call
UIntervalElapsed ==
  now - ub.last_process_time >= ub.chunk_duration - ub.overlap_duration

\* C1: after any sequence of add_chunk calls the ring holds at most
\* 10 s x sample_rate samples, and they are the most recent ones in arrival
\* order: whatever was dropped is older than everything that was kept.
C1_CapacityDropsOldest ==
  /\ Len(ub.buffer) <= BufferSeconds * ub.sample_rate
  /\ ub.buffer = KeepLast(Samples(ucleared, uarrived - ucleared),
                          BufferSeconds * ub.sample_rate)

\* C1 witness: an add_chunk call has pushed samples out of a full ring
C1_Witness ==
  /\ ulast.op = "add"
  /\ uarrived - ucleared > BufferSeconds * ub.sample_rate
  /\ Len(ub.buffer) = BufferSeconds * ub.sample_rate
  /\ ub.buffer[1] > ucleared + 1

C3_ExtractOldest ==
  [][ UGetStep =>
        /\ (UIntervalElapsed /\ Len(ub.buffer) >= UMinSamples) =>
             /\ ulast'.some
             /\ ulast'.chunk = Samples(uarrived - Len(ub.buffer),
                                       Min(UChunkSamples, Len(ub.buffer)))
             /\ ub'.last_process_time = now
             /\ ub'.total_chunks_processed = ub.total_chunks_processed + 1
        /\ ~ulast'.some =>
             /\ ub'.last_process_time = ub.last_process_time
             /\ ub'.total_chunks_processed = ub.total_chunks_processed ]_vars

\* C3 witness: a window was cut from the old end of a ring that had already
\* dropped its first samples
C3_Witness ==
  /\ ulast.op = "get" /\ ulast.some
  /\ Len(ulast.chunk) > 0
  /\ Len(ulast.chunk) < Len(ub.buffer)
  /\ ulast.chunk[1] > ucleared + 1
  /\ ub.last_process_time = now

\* C4: get_processing_chunk never changes the ring, so two windows returned
\* with no other call between them are equal; the ring changes only in
\* add_chunk and clear.
C4_ExtractKeepsRing ==
  [][ /\ UGetStep => ub'.buffer = ub.buffer
      /\ (UGetStep /\ ulast'.some /\ ulast.op = "get" /\ ulast.some) =>
           ulast'.chunk = ulast.chunk
      /\ ub'.buffer # ub.buffer =>
           (uops' = uops + 1 /\ ulast'.op \in {"add", "clear"}) ]_vars

\* C4 witness: two successive calls both returned a non-empty window
C4_Witness ==
  /\ ulast.op = "get" /\ ulast.some
  /\ ulast.prev = "get" /\ ulast.prevsome
  /\ Len(ulast.chunk) > 0


\* ------------------------------------------------- claims about the sessions
\* the client ids the manager holds a session for
ActiveIds == DOMAIN manager.active_connections

\* the sample rate the audio branch reads from envelope field sr
EffectiveRate(sr) == IF sr = Absent THEN DefaultSampleRate ELSE sr

\* C5: for every stream buffer the manager holds, the number of windows
\* emitted (chunks_processed) never exceeds the number of chunks appended
\* (chunks_received).
C5_ProcessedAtMostReceived ==
  \A id \in DOMAIN manager.stream_buffers :
    manager.stream_buffers[id].total_chunks_processed
      <= manager.stream_buffers[id].total_chunks_received

\* C6: when connect runs for a client id that already has an active session,
\* it fails: the manager (handle, buffer and metadata of the existing session)
\* is left as it was and the new connection is not stored.
C6_DuplicateRejected ==
  [][\A c \in Conns :
       (/\ pc[c] = "accept"
        /\ pc'[c] = "send_connected"
        /\ client_id[c] \in ActiveIds)
       => (manager' = manager /\ ~registered'[c])]_vars

\* C7: on every path by which a connection closes (failed handshake, failed
\* accept, disconnect seen by receive, send failure, failure while reporting
\* an error) disconnect runs exactly once for a connection that was given a
\* client id, and never while the coroutine is still running.
C7_DisconnectExactlyOnce ==
  \A c \in Conns :
    /\ disconnects[c] <= 1
    /\ (pc[c] # "done" => disconnects[c] = 0)
    /\ (pc[c] = "done" /\ client_id[c] # NoId => disconnects[c] = 1)
    /\ (pc[c] = "done" /\ registered[c] => disconnects[c] = 1)

\* a stored session ended while the coroutine was reporting a failed send
C7_Witness ==
  \E c \in Conns :
    /\ pc[c] = "done"
    /\ registered[c]
    /\ exit_at[c] = "send_handler"
    /\ disconnects[c] = 1

\* C8: while a detect call of one session is in flight, another session
\* whose coroutine waits in receive on an open transport can have its ping or
\* stats message handled.
C8_OthersNotBlocked ==
  \A c, d \in Conns :
    (/\ c # d
     /\ pc[c] = "detect"
     /\ pc[d] = "recv"
     /\ alive[d]
     /\ received < limit)
    => ENABLED (RecvPing(d) \/ RecvStats(d))

\* C9: when the transport goes down while detect is in flight, the call still
\* runs to its end (it returns or raises, it is not abandoned), no reply of
\* the connection is delivered afterwards, and the coroutine ends with the
\* session's handle, buffer and metadata removed, disconnect having run once.
C9_DisconnectDuringDetect ==
  [][\A c \in Conns :
       cut'[c] =>
         /\ ~alive'[c]
         /\ (pc[c] = "detect" /\ pc'[c] # "detect"
               => /\ last'[c].ret # "none"
                  /\ pc'[c] \in {"send_audio", "send_loop"})
         /\ \A i \in 1..Len(last'[c].replies) : ~last'[c].replies[i].delivered
         /\ (pc[c] \in SendPcs /\ pc'[c] # pc[c] => ~alive[c])
         /\ (pc[c] # "done" /\ pc'[c] = "done"
               => /\ client_id[c] \notin DOMAIN manager'.active_connections
                  /\ client_id[c] \notin DOMAIN manager'.stream_buffers
                  /\ client_id[c] \notin DOMAIN manager'.connection_metadata
                  /\ disconnects'[c] = 1)]_vars

\* the transport went down during detect, the result could not be sent, and
\* the coroutine has ended
C9_Witness ==
  \E c \in Conns :
    /\ cut[c]
    /\ pc[c] = "done"
    /\ exit_at[c] \in {"send_loop", "send_handler"}
    /\ disconnects[c] = 1
    /\ client_id[c] \notin DOMAIN manager.stream_buffers

\* C10: for an audio_chunk with a decodable payload: if get_processing_chunk
\* gives a window, detect is called once with that window and the sample rate
\* of the message, and what it returns goes out as the only reply, a
\* detection_result carrying the result; if it gives no window, detect is not
\* called and the coroutine goes back to receive without a reply.
C10_DetectOncePerWindow ==
  [][\A c \in Conns :
       /\ (pc'[c] = "detect"
             => /\ last'[c].type = "audio_chunk"
                /\ last'[c].decodable
                /\ last'[c].window = "some"
                /\ last'[c].calls = 1
                /\ loc'[c].audio = last'[c].chunk
                /\ loc'[c].sr = EffectiveRate(last'[c].msg_sr))
       /\ (pc[c] = "detect" /\ pc'[c] = "send_audio"
             => /\ last'[c].ret \in Results
                /\ last'[c].replies = << >>
                /\ out'[c] = Reply("detection_result", last'[c].ret))
       /\ (pc[c] = "send_audio" /\ pc'[c] # "send_audio" /\ alive[c]
             => /\ pc'[c] = "recv"
                /\ last[c].replies = << >>
                /\ out[c] = Reply("detection_result", last[c].ret))
       /\ ((/\ last'[c].type = "audio_chunk"
            /\ last'[c].decodable
            /\ last'[c].window = "none")
             => /\ pc'[c] = "recv"
                /\ out'[c] = NoReply
                /\ last'[c].calls = 0
                /\ last'[c].replies = << >>)]_vars

\* a detect call for a message that names its own sample rate has returned
\* and its result waits to be sent on an open transport
C10_Witness ==
  \E c \in Conns :
    /\ pc[c] = "send_audio"
    /\ alive[c]
    /\ last[c].msg_sr \in MsgSampleRates
    /\ last[c].calls = 1
    /\ out[c].type = "detection_result"

\* an audio_chunk with a decodable payload was handled without a window
C10_WitnessNoWindow ==
  \E c \in Conns :
    /\ pc[c] = "recv"
    /\ last[c].type = "audio_chunk"
    /\ last[c].decodable
    /\ last[c].window = "none"

\* ------------------------------------------- claims about error handling
\* the message being handled was of no known type
IsUnknown(l) == l.type \in {message_type(m) : m \in UnknownMessages}
\* connection c's coroutine takes the step that ends a send_json call on an
\* open transport
SentAlive(c) == pc[c] \in SendPcs /\ pc'[c] # pc[c] /\ alive[c]
\* the session of connection c is stored under its id
Stored(c, mgr) ==
  /\ client_id[c] \in DOMAIN mgr.active_connections
  /\ mgr.active_connections[client_id[c]] = c

\* C11: a message of a type other than audio_chunk, config, ping and stats,
\* or without a type, is answered with one error envelope whose message is
\* "Unknown message type: <type>" (<type> is "unknown" when the key is
\* missing); the stream buffers are left as they were, and once the reply
\* is out the coroutine is back at receive with the session still stored.
C11_UnknownTypeError ==
  [][\A c \in Conns :
       /\ (pc[c] = "recv" /\ IsUnknown(last'[c]))
            => /\ pc'[c] = "send_loop"
               /\ out'[c] = Reply("error", "Unknown message type: " \o last'[c].type)
               /\ last'[c].replies = << >>
               /\ manager'.stream_buffers = manager.stream_buffers
               /\ manager'.active_connections = manager.active_connections
       /\ (SentAlive(c) /\ IsUnknown(last[c]))
            => /\ pc'[c] = "recv"
               /\ out[c].type = "error"
               /\ last[c].replies = << >>
               /\ manager' = manager]_vars

\* an envelope without a type is being answered on an open transport of a
\* session whose buffer already holds samples
C11_Witness ==
  \E c \in Conns :
    /\ pc[c] = "send_loop"
    /\ alive[c]
    /\ last[c].type = "unknown"
    /\ out[c] = Reply("error", "Unknown message type: unknown")
    /\ Stored(c, manager)
    /\ Len(manager.stream_buffers[client_id[c]].buffer) > 0

\* C12: when detect raises, the coroutine sends one error envelope and
\* nothing else for that message, counts no detection, and once the reply
\* is out is back at receive with the session stored as before; detect is
\* entered only by taking a new message, never a second time for the same.
C12_DetectErrorReported ==
  [][\A c \in Conns :
       /\ (pc[c] = "detect" /\ pc'[c] \notin {"detect", "send_audio"})
            => /\ pc'[c] = "send_loop"
               /\ last'[c].ret = "raised"
               /\ last'[c].calls = 1
               /\ last'[c].replies = << >>
               /\ out'[c] = Reply("error", "Detection failed")
               /\ manager' = manager
       /\ (SentAlive(c) /\ last[c].ret = "raised")
            => /\ pc'[c] = "recv"
               /\ out[c].type = "error"
               /\ last[c].replies = << >>
               /\ manager' = manager
       /\ (pc'[c] = "detect" /\ pc[c] # "detect")
            => /\ pc[c] = "recv"
               /\ received' = received + 1
               /\ last'[c].calls = 1]_vars

\* a session one of whose windows was lost to a raising detect call has
\* its next message, a ping, answered on an open transport
C12_Witness ==
  \E c \in Conns :
    /\ pc[c] = "send_loop"
    /\ alive[c]
    /\ last[c].type = "ping"
    /\ out[c].type = "pong"
    /\ Stored(c, manager)
    /\ manager.stream_buffers[client_id[c]].total_chunks_processed
         > manager.connection_metadata[client_id[c]].total_detections

\* the audio_chunk being handled has a payload of kind k
AudioPayload(l, k) == l.type = "audio_chunk" /\ l.payload = k

\* C13: an audio_chunk whose payload is not decodable (decode_audio_data
\* raises, or the JSON text is not a flat array of numbers) is answered with
\* one error envelope, the stream buffers stay as they were, and once the
\* reply is out the coroutine is back at receive with the manager unchanged.
C13_DecodeFailureReported ==
  [][\A c \in Conns :
       /\ (/\ pc[c] = "recv"
           /\ (AudioPayload(last'[c], "undecodable") \/ AudioPayload(last'[c], "nested")))
            => /\ pc'[c] = "send_loop"
               /\ out'[c].type = "error"
               /\ last'[c].replies = << >>
               /\ manager'.stream_buffers = manager.stream_buffers
       /\ (/\ SentAlive(c)
           /\ (AudioPayload(last[c], "undecodable") \/ AudioPayload(last[c], "nested")))
            => /\ pc'[c] = "recv"
               /\ out[c].type = "error"
               /\ last[c].replies = << >>
               /\ manager' = manager]_vars

\* C14: an audio_chunk without audio_data (or with an empty one) is answered
\* with one error envelope, "Missing audio_data"; no stream buffer changes
\* (nothing is appended, no window is cut, no sample_rate is set), and once
\* the reply is out the coroutine is back at receive with the manager
\* unchanged.
C14_MissingPayload ==
  [][\A c \in Conns :
       /\ (pc[c] = "recv" /\ AudioPayload(last'[c], "missing"))
            => /\ pc'[c] = "send_loop"
               /\ out'[c] = Reply("error", "Missing audio_data")
               /\ last'[c].replies = << >>
               /\ last'[c].calls = 0
               /\ manager'.stream_buffers = manager.stream_buffers
               /\ manager'.active_connections = manager.active_connections
       /\ (SentAlive(c) /\ AudioPayload(last[c], "missing"))
            => /\ pc'[c] = "recv"
               /\ out[c].type = "error"
               /\ last[c].replies = << >>
               /\ manager' = manager]_vars

\* an audio_chunk that names a sample rate other than the buffer's but
\* carries no payload is being answered on an open transport
C14_Witness ==
  \E c \in Conns :
    /\ pc[c] = "send_loop"
    /\ alive[c]
    /\ AudioPayload(last[c], "missing")
    /\ Stored(c, manager)
    /\ last[c].msg_sr \in MsgSampleRates
    /\ manager.stream_buffers[client_id[c]].sample_rate # last[c].msg_sr
    /\ Len(manager.stream_buffers[client_id[c]].buffer) > 0

\* ------------------------------------------ claims about the manager's methods
\* the step is a direct call of the manager method op
RegCall(op) == reg.on /\ reg'.n = reg.n + 1 /\ reg'.op = op
\* the ids under which the manager holds anything
HeldIds(mgr) ==
  DOMAIN mgr.active_connections \cup DOMAIN mgr.stream_buffers
    \cup DOMAIN mgr.connection_metadata
\* map g is map f without key k
Without(f, g, k) ==
  /\ DOMAIN g = DOMAIN f \ {k}
  /\ \A x \in DOMAIN g : g[x] = f[x]

\* C15: disconnect(client_id) removes the id's handle, buffer and metadata
\* and leaves every other id's entries as they were; called for an id the
\* manager does not hold (never connected, or disconnected before) it
\* changes nothing, and calling it once more after any call changes nothing.
C15_DisconnectIdempotent ==
  [][RegCall("disconnect") =>
       /\ Without(manager.active_connections, manager'.active_connections, reg'.id)
       /\ Without(manager.stream_buffers, manager'.stream_buffers, reg'.id)
       /\ Without(manager.connection_metadata, manager'.connection_metadata, reg'.id)
       /\ (reg'.id \notin HeldIds(manager) => manager' = manager)
       /\ (reg'.id \in reg.gone => manager' = manager)
       /\ disconnect(manager', reg'.id) = manager']_vars

\* disconnect was called a second time for an id while another session,
\* with samples in its buffer, is held
C15_Witness ==
  /\ reg.op = "disconnect"
  /\ reg.again
  /\ reg.id \notin HeldIds(manager)
  /\ \E id \in DOMAIN manager.stream_buffers :
       /\ id # reg.id
       /\ Len(manager.stream_buffers[id].buffer) > 0

\* C16: for an id that was disconnected and not connected again since,
\* get_connection_stats returns None, and send_message returns False without
\* calling send_json and without raising.
C16_AbsentAfterDisconnect ==
  [][/\ (RegCall("get") /\ reg'.id \in reg.gone) => reg'.ret = "absent"
     /\ (RegCall("send") /\ reg'.id \in reg.gone)
          => (reg'.ret = "false" /\ reg'.outcome = "none")
     /\ (RegCall("disconnect") => reg'.id \notin HeldIds(manager'))
     /\ (\A id \in reg.gone : id \notin HeldIds(manager))]_vars

\* send_message was called for an id disconnected earlier, while both
\* websockets are open and another session is held
C16_Witness ==
  /\ reg.op = "send"
  /\ reg.again
  /\ reg.ret = "false"
  /\ \A c \in Conns : alive[c]
  /\ HeldIds(manager) # {}

\* connection c's coroutine takes the step that ends a send_json call on a
\* transport that is gone
SentDead(c) == pc[c] \in SendPcs /\ pc'[c] # pc[c] /\ ~alive[c]
\* a failed send_json leaves the coroutine in one of its except clauses, at
\* the next receive, or past its finally clause with the session removed
FailedSendHandled(c) ==
  /\ pc'[c] \in {"recv", "send_loop", "send_handler", "done"}
  /\ pc'[c] = "done"
       => /\ disconnects'[c] = disconnects[c] + 1
          /\ client_id[c] \notin HeldIds(manager')

\* C17 as stated: send_message never raises; it returns True only when the
\* envelope was delivered and False when the handle's transport is gone; and
\* a failed send_json of the coroutine is always handled.
C17_Original ==
  [][/\ RegCall("send")
          => /\ reg'.ret \in {"true", "false"}
             /\ (reg'.ret = "true" => reg'.outcome = "delivered")
             /\ manager' = manager
     /\ \A c \in Conns : SentDead(c) => FailedSendHandled(c)]_vars

\* C17 amended: send_message never raises; it returns False when the id has
\* no handle or when send_json on the handle raised, and True whenever
\* send_json returned, which it may also do on a transport that is already
\* gone; and a failed send_json of the coroutine is always handled.
C17_SendNeverRaises ==
  [][/\ RegCall("send")
          => /\ reg'.ret \in {"true", "false"}
             /\ (reg'.ret = "true" <=> reg'.outcome \in {"delivered", "dropped"})
             /\ (reg'.outcome \in {"disconnect", "error", "none"} => reg'.ret = "false")
             /\ manager' = manager
     /\ \A c \in Conns : SentDead(c) => FailedSendHandled(c)]_vars

\* send_message was called for a held session whose transport is gone, and
\* send_json raised
C17_Witness ==
  /\ reg.op = "send"
  /\ reg.id \in DOMAIN manager.active_connections
  /\ ~alive[manager.active_connections[reg.id]]
  /\ reg.outcome \in {"disconnect", "error"}
  /\ reg.ret = "false"

\* ------------------------------------------------ claims about the handshake
\* mgr holds a session for id that was stored at time t and never used: a
\* handle, an empty buffer with both counters at zero, zeroed metadata
FreshSession(mgr, id, t) ==
  /\ id \in DOMAIN mgr.active_connections
  /\ id \in DOMAIN mgr.stream_buffers
  /\ id \in DOMAIN mgr.connection_metadata
  /\ mgr.stream_buffers[id].buffer = << >>
  /\ mgr.stream_buffers[id].sample_rate = DefaultSampleRate
  /\ mgr.stream_buffers[id].total_chunks_received = 0
  /\ mgr.stream_buffers[id].total_chunks_processed = 0
  /\ mgr.connection_metadata[id] =
       [connected_at |-> t, total_messages |-> 0, total_detections |-> 0]

\* C18: the first envelope gives the connection its client id (the one it
\* supplies, else a generated one); connect then stores a session with an
\* empty buffer and zeroed counters under that id, also when the id was held
\* before; the coroutine's first reply is one connected envelope carrying
\* the id, sent only at that point, and once it is out the coroutine is at
\* receive.
C18_Handshake ==
  [][/\ \A c \in Conns :
          /\ (pc[c] = "handshake" /\ pc'[c] = "accept")
               => /\ client_id'[c] # NoId
                  /\ \E m \in FirstMessages(c) :
                       /\ m.type # "malformed"
                       /\ client_id'[c] =
                            IF m.client_id = NoId THEN Uuid(c) ELSE m.client_id
                  /\ manager' = manager
          /\ (pc[c] = "accept" /\ pc'[c] = "send_connected")
               => /\ FreshSession(manager', client_id[c], now)
                  /\ manager'.active_connections[client_id[c]] = c
                  /\ out'[c] = Reply("connected", client_id[c])
                  /\ last'[c].replies = << >>
          /\ (pc[c] = "send_connected" /\ SentAlive(c))
               => /\ pc'[c] = "recv"
                  /\ out[c] = Reply("connected", client_id[c])
                  /\ manager' = manager
          /\ (out'[c].type = "connected" => pc'[c] = "send_connected")
          /\ (pc'[c] \in SendPcs \ {"send_connected"} => registered'[c])
     /\ RegCall("connect") => FreshSession(manager', reg'.id, now)]_vars

\* a connection whose first envelope had no client_id is at receive under
\* a generated id, its connected envelope delivered
C18_Witness ==
  \E c \in Conns :
    /\ pc[c] = "recv"
    /\ alive[c]
    /\ client_id[c] = Uuid(c)
    /\ FreshSession(manager, client_id[c], manager.connection_metadata[client_id[c]].connected_at)
    /\ Stored(c, manager)


\* ---------------------------------------------------------------- C19
\* handling the message that left l and reply o raised an exception: the
\* frame was not a JSON object, get_connection_stats divided by zero, the
\* payload did not decode, or detect raised
Raised(l, o) ==
  \/ l.type = "malformed"
  \/ l.type = "stats" /\ o.type = "error"
  \/ AudioPayload(l, "undecodable")
  \/ l.ret = "raised"

\* C19: an exception raised while a message is received or handled on an
\* open transport makes the coroutine send one error envelope, the first
\* and only reply to that message, with the registry holding the same
\* sessions as before; once that reply is out the coroutine is back at
\* receive with the manager untouched. The coroutine leaves the loop from
\* receive or from detect only when the transport is gone.
C19_FailureOneError ==
  [][\A c \in Conns :
       /\ (pc[c] \in {"recv", "detect"} /\ pc'[c] # pc[c]
             /\ Raised(last'[c], out'[c]))
            => /\ pc'[c] \in {"send_loop", "send_handler"}
               /\ out'[c].type = "error"
               /\ last'[c].replies = << >>
               /\ manager'.active_connections = manager.active_connections
               /\ DOMAIN manager'.stream_buffers = DOMAIN manager.stream_buffers
               /\ DOMAIN manager'.connection_metadata
                    = DOMAIN manager.connection_metadata
       /\ (SentAlive(c) /\ Raised(last[c], out[c]))
            => /\ pc'[c] = "recv"
               /\ out[c].type = "error"
               /\ last[c].replies = << >>
               /\ manager' = manager
       /\ (pc[c] \in {"recv", "detect"} /\ pc'[c] = "done")
            => ~alive[c]]_vars

\* a stats request on a session whose sample rate is 0 made
\* get_connection_stats raise: the error envelope of the loop's handler is
\* about to go out on an open transport, the session still stored
C19_Witness ==
  \E c \in Conns :
    /\ pc[c] = "send_handler"
    /\ alive[c]
    /\ last[c].type = "stats"
    /\ out[c] = Reply("error", "division by zero")
    /\ last[c].replies = << >>
    /\ Stored(c, manager)
    /\ client_id[c] \in DOMAIN manager.stream_buffers


\* ---------------------------------------------------------------- C20
\* the detections counted for the session of id, and the windows its
\* buffer has handed out
Detections(mgr, id) ==
  IF id \in DOMAIN mgr.connection_metadata
  THEN mgr.connection_metadata[id].total_detections ELSE 0
Windows(mgr, id) ==
  IF id \in DOMAIN mgr.stream_buffers
  THEN mgr.stream_buffers[id].total_chunks_processed ELSE 0
\* the envelope types that answer a message of the type recorded in l
RepliesTo(l) ==
  IF l.type = "audio_chunk" THEN {"detection_result", "error"}
  ELSE IF l.type = "config" THEN {"config_updated", "error"}
  ELSE IF l.type = "ping" THEN {"pong", "error"}
  ELSE IF l.type = "stats" THEN {"stats", "error"}
  ELSE {"error"}
\* connection c has a detection_result envelope ready to go out
ResultPending(c) == pc[c] = "send_audio" /\ out[c].type = "detection_result"

\* C20 as stated: a message is taken only when no reply is pending, and a
\* detection_result that is about to go out is the i-th one for the i-th
\* audio_chunk that produced a window: the session has counted as many
\* detections as its buffer has handed out windows.
C20_Original ==
  \A c \in Conns :
    /\ pc[c] = "recv" => out[c] = NoReply
    /\ (ResultPending(c) /\ Stored(c, manager))
         => Detections(manager, client_id[c]) = Windows(manager, client_id[c])

\* C20, amended: a message is taken only when no reply is pending, every
\* reply that becomes pending answers the message being handled, and the
\* i-th detection_result belongs to the i-th audio_chunk whose detect call
\* returned: a detection is counted exactly in the step in which detect
\* returns, that step makes one detection_result with the value returned
\* for the window of the message being handled, and a detect call that
\* raises counts nothing and is answered by an error envelope, so that
\* detections never outnumber windows.
C20_RepliesInOrder ==
  [][\A c \in Conns :
       /\ (pc[c] = "recv" /\ pc'[c] # "recv")
            => /\ out[c] = NoReply
               /\ (pc'[c] # "done" => received' = received + 1)
       /\ (pc'[c] \in {"send_audio", "send_loop", "send_handler"} /\ pc'[c] # pc[c])
            => /\ out'[c].type \in RepliesTo(last'[c])
               /\ (pc[c] \notin {"recv", "detect"}
                     => /\ pc[c] \in SendPcs
                        /\ last'[c].type = last[c].type
                        /\ last'[c].replies # << >>
                        /\ out'[c].type = "error")
       /\ (pc[c] = "detect" /\ pc'[c] = "send_audio")
            => /\ last[c].type = "audio_chunk"
               /\ last[c].window = "some"
               /\ loc[c].audio = last[c].chunk
               /\ out'[c] = Reply("detection_result", last'[c].ret)
               /\ (Stored(c, manager)
                     => Detections(manager', client_id[c])
                          = Detections(manager, client_id[c]) + 1)
       /\ (pc[c] = "detect" /\ pc'[c] = "send_loop")
            => /\ out'[c].type = "error"
               /\ manager' = manager
       /\ (pc[c] = pc'[c] \/ pc[c] \in SendPcs \ {"send_connected"} \/ pc[c] = "recv")
            => (client_id[c] \in DOMAIN manager'.connection_metadata
                  => Detections(manager', client_id[c])
                       = Detections(manager, client_id[c]))
       /\ (ResultPending(c) /\ Stored(c, manager))
            => Detections(manager, client_id[c]) <= Windows(manager, client_id[c])]_vars

\* the first detection_result of a session is about to go out on an open
\* transport for the second audio_chunk that produced a window: the detect
\* call for the first window raised
C20_Witness ==
  \E c \in Conns :
    /\ ResultPending(c)
    /\ alive[c]
    /\ Stored(c, manager)
    /\ Detections(manager, client_id[c]) = 1
    /\ Windows(manager, client_id[c]) = 2


\* ---------------------------------------------------------------- C21
\* connection c's coroutine is in its message loop
InLoop(c) == pc[c] \in {"recv", "detect", "send_audio", "send_loop", "send_handler"}
\* connection c's coroutine takes this step
Acts(c) == pc'[c] # pc[c] \/ last'[c] # last[c] \/ out'[c] # out[c]
\* what a stats request of the session stored under id would report: the
\* buffer's sample count and counters and the metadata's counters
Snapshot(mgr, id) ==
  IF id \in DOMAIN mgr.connection_metadata /\ id \in DOMAIN mgr.stream_buffers
  THEN [ buffer_size            |-> get_stats(mgr.stream_buffers[id]).buffer_size,
         total_chunks_received  |-> get_stats(mgr.stream_buffers[id]).total_chunks_received,
         total_chunks_processed |-> get_stats(mgr.stream_buffers[id]).total_chunks_processed,
         total_messages         |-> mgr.connection_metadata[id].total_messages,
         total_detections       |-> mgr.connection_metadata[id].total_detections ]
  ELSE [ buffer_size |-> -1, total_chunks_received |-> -1,
         total_chunks_processed |-> -1, total_messages |-> -1,
         total_detections |-> -1 ]

\* C21: while the coroutines of two connections are both in their message
\* loops, a step of one of them (handling an audio_chunk, config, stats or
\* ping message, or its disconnect) leaves unchanged what a stats request
\* of the other would report.
C21_SessionsIndependent ==
  [][\A c, d \in Conns :
       (c # d /\ InLoop(c) /\ InLoop(d) /\ Acts(c) /\ ~Acts(d))
         => Snapshot(manager', client_id[d]) = Snapshot(manager, client_id[d])]_vars

\* the same for two connections that registered under different client ids
C21_DistinctIds ==
  [][\A c, d \in Conns :
       (c # d /\ client_id[c] # client_id[d]
          /\ InLoop(c) /\ InLoop(d) /\ Acts(c) /\ ~Acts(d))
         => Snapshot(manager', client_id[d]) = Snapshot(manager, client_id[d])]_vars


\* ---------------------------------------------------------------- C22
\* C22: a stats message taken by a coroutine whose session is stored is
\* answered with one stats envelope, the first reply to that message,
\* which carries the session's metadata and its buffer's statistics
\* (sample count, duration, chunks received, chunks processed) as they are
\* after the message was counted, and after which the coroutine is back at
\* receive.
C22_StatsAlwaysReplied ==
  [][\A c \in Conns :
       /\ (pc[c] = "recv" /\ pc'[c] # "recv" /\ last'[c].type = "stats"
             /\ Stored(c, manager)
             /\ client_id[c] \in DOMAIN manager.stream_buffers)
            => /\ pc'[c] = "send_loop"
               /\ last'[c].replies = << >>
               /\ out'[c].type = "stats"
               /\ out'[c].body.some
               /\ out'[c].body.stats =
                    << manager'.connection_metadata[client_id[c]],
                       get_stats(manager'.stream_buffers[client_id[c]]) >>
       /\ (SentAlive(c) /\ last[c].type = "stats")
            => /\ out[c].type = "stats"
               /\ pc'[c] = "recv"]_vars


\* ---------------------------------------------------------------- C23
\* audio_chunk envelopes whose encoding is "json" and whose audio_data is a
\* JSON array of numbers
JsonArrayMessages ==
  {m \in AudioMessages : m.encoding = "json" /\ m.audio_data.form = "list"}
\* the same samples sent as base64 text of their float32 bytes
AsBase64(m) ==
  [m EXCEPT !.encoding = "base64",
            !.audio_data = [form |-> "b64", n |-> 4 * m.audio_data.n]]

\* C23: when a coroutine whose session is stored takes an audio_chunk with
\* encoding "json" and a JSON array of n numbers as audio_data, the n
\* samples are decoded and appended to the session's buffer as one chunk,
\* and the manager is left exactly as the same samples sent in base64 would
\* leave it.
C23_JsonArrayDecoded ==
  [][\A c \in Conns : \A m \in JsonArrayMessages :
       (Stored(c, manager) /\ client_id[c] \in DOMAIN manager.stream_buffers
          /\ RecvAudio(c, m))
         => /\ arrived'[c] = arrived[c] + m.audio_data.n
            /\ manager'.stream_buffers[client_id[c]].total_chunks_received
                 = manager.stream_buffers[client_id[c]].total_chunks_received + 1
            /\ manager' =
                 process_audio_chunk(
                   count_message(manager, client_id[c]), client_id[c],
                   decode_audio_data(AsBase64(m).audio_data, "base64",
                                     SampleBase(c) + arrived[c]).samples,
                   EffectiveRate(m.sample_rate), now).mgr]_vars


\* ---------------------------------------------------------------- C24
\* the payload handed to decode_audio_data is one the claim's three cases
\* name: the encoding is not recognised; the base64 text does not decode
\* to a whole number of 4-byte values; the JSON text is not a flat array of
\* numbers
BadBase64(data) ==
  \/ ~b64decode(data).ok
  \/ Len(b64decode(data).value) % 4 # 0
BadJson(data) == data.kind # "json" \/ data.json.shape # "flat"
BadPayload(data, encoding) ==
  \/ encoding \notin {"base64", "json"}
  \/ encoding = "base64" /\ BadBase64(data)
  \/ encoding = "json" /\ BadJson(data)

\* C24: decode_audio_data of a str payload raises AudioFormatError when the
\* encoding is neither "base64" nor "json", when the base64 text does not
\* give a multiple of 4 bytes, and when the JSON text is not a flat array
\* of numbers; in every other case it returns a one-dimensional array of
\* samples.
C24_DecodeErrors ==
  (codec.stage = "decoded" /\ codec.data.kind # "list")
    => IF BadPayload(codec.data, codec.encoding)
       THEN ~codec.result.ok /\ codec.result.kind = "AudioFormatError"
       ELSE codec.result.ok /\ codec.result.value.ndim = 1

\* the same with any exception class accepted in place of AudioFormatError
C24_AnyErrorKind ==
  (codec.stage = "decoded" /\ codec.data.kind # "list")
    => IF BadPayload(codec.data, codec.encoding)
       THEN ~codec.result.ok
       ELSE codec.result.ok /\ codec.result.value.ndim = 1

\* the same again, for base64 and unrecognised encodings only
C24_AnyErrorKindNotJson ==
  (codec.stage = "decoded" /\ codec.data.kind # "list" /\ codec.encoding # "json")
    => IF BadPayload(codec.data, codec.encoding)
       THEN ~codec.result.ok
       ELSE codec.result.ok /\ codec.result.value.ndim = 1

\* ---------------------------------------------------------------- C25
\* C25: samples that the client turned into base64 text of their float32
\* bytes come back from decode_audio_data(text, "base64") as a
\* one-dimensional array with the same values in the same order.
C25_Base64RoundTrip ==
  (codec.stage = "decoded" /\ codec.given /\ codec.encoding = "base64")
    => /\ codec.result.ok
       /\ codec.result.value.ndim = 1
       /\ codec.result.value.items = codec.samples

\* two different samples, one of them negative, went through base64 text
\* that ends in padding and came back
C25_Witness ==
  /\ codec.stage = "decoded"
  /\ codec.given
  /\ codec.encoding = "base64"
  /\ Len(codec.samples) = 2
  /\ codec.samples[1] < 0
  /\ codec.samples[2] > 1
  /\ codec.data.chars[Len(codec.data.chars)] = PadChar
  /\ codec.result.ok


\* ---------------------------------------------------------------- C26
\* C26: the ring of a buffer never holds more than 10 s x sample_rate
\* samples, whatever calls were made on the buffer and whatever values
\* were assigned to its sample_rate in between.
C26_CapacityAfterRateChange ==
  Len(ub.buffer) <= BufferSeconds * ub.sample_rate

\* ---------------------------------------------------------------- C27
\* C27: whatever value was last assigned to chunk_duration, a call of
\* get_processing_chunk returns a window exactly when
\* now - last_process_time >= chunk_duration - overlap_duration and the
\* minimum number of samples is buffered, and the window then has
\* min(int(chunk_duration x sample_rate), buffered count) samples.
C27_ConfiguredDurationUsed ==
  [][ UGetStep =>
        /\ ulast'.some <=> (UIntervalElapsed /\ Len(ub.buffer) >= UMinSamples)
        /\ ulast'.some =>
             Len(ulast'.chunk) = Min(UChunkSamples, Len(ub.buffer)) ]_vars

\* the window length alone follows the value last assigned
C27_WindowLength ==
  [][ (UGetStep /\ ulast'.some) =>
        Len(ulast'.chunk) = Min(UChunkSamples, Len(ub.buffer)) ]_vars


\* ---------------------------------------------------------------- C28
\* the buffer has not handed out a window yet and its last_process_time is
\* the constructor's 0.0
UFresh == ub.total_chunks_processed = 0 /\ ub.last_process_time = 0

\* C28: on a fresh buffer only the minimum-duration condition decides the
\* first get_processing_chunk: with fewer than int(min_duration x
\* sample_rate) samples buffered it returns None and changes nothing; with
\* at least that many it returns the oldest min(chunk samples, buffered
\* count) samples (all of them when exactly the minimum is buffered) and
\* total_chunks_processed becomes 1.
C28_FirstExtract ==
  [][ (UGetStep /\ UFresh) =>
        IF Len(ub.buffer) < UMinSamples
        THEN ~ulast'.some /\ ub' = ub
        ELSE /\ ulast'.some
             /\ ulast'.chunk = Samples(uarrived - Len(ub.buffer),
                                       Min(UChunkSamples, Len(ub.buffer)))
             /\ (Len(ub.buffer) = UMinSamples /\ UMinSamples <= UChunkSamples)
                  => ulast'.chunk = ub.buffer
             /\ ub'.total_chunks_processed = 1
             /\ ub'.buffer = ub.buffer ]_vars

\* the first window of a buffer came back when exactly the minimum, three
\* samples added one at a time, was buffered
C28_Witness ==
  /\ ulast.op = "get" /\ ulast.some
  /\ ub.total_chunks_processed = 1
  /\ ub.total_chunks_received = 3
  /\ Len(ub.buffer) = SamplesIn(ub.sample_rate, ub.min_duration)
  /\ ulast.chunk = ub.buffer
  /\ Len(ulast.chunk) = 3
  /\ ulast.prev = "add"


\* ---------------------------------------------------------------- C29
\* a step of the stand-alone buffer that is a call of add_chunk, or of clear
UAddStep == uops' = uops + 1 /\ ulast'.op = "add"
UClearStep == uops' = uops + 1 /\ ulast'.op = "clear"
\* the fields of a buffer that neither add_chunk nor clear may touch
UConfig(b) ==
  << b.sample_rate, b.chunk_duration, b.overlap_duration, b.min_duration,
     b.maxlen, b.process_interval >>

\* C29: add_chunk with a non-empty chunk leaves in the ring the newest
\* samples of the old ring followed by the chunk, in order, up to the
\* ring's capacity, and adds one to total_chunks_received; with an empty
\* chunk it changes nothing; in both cases total_chunks_processed,
\* last_process_time and the configuration stay as they were.
C29_AddAppends ==
  [][ UAddStep =>
        LET chunk == ulast'.chunk
            all == ub.buffer \o chunk
            dropped == Len(all) - Len(ub'.buffer)
        IN /\ IF Len(chunk) > 0
              THEN /\ Len(ub'.buffer) = Min(Len(all), ub.maxlen)
                   /\ \A i \in 1..Len(ub'.buffer) : ub'.buffer[i] = all[i + dropped]
                   /\ ub'.total_chunks_received = ub.total_chunks_received + 1
              ELSE ub' = ub
           /\ ub'.total_chunks_processed = ub.total_chunks_processed
           /\ ub'.last_process_time = ub.last_process_time
           /\ UConfig(ub') = UConfig(ub) ]_vars

\* a chunk was appended behind samples of an earlier chunk, after a window
\* had been handed out
C29_Witness ==
  /\ ulast.op = "add"
  /\ Len(ulast.chunk) > 1
  /\ Len(ub.buffer) > Len(ulast.chunk)
  /\ ub.buffer[Len(ub.buffer)] = uarrived
  /\ ub.buffer[Len(ub.buffer) - Len(ulast.chunk)] = uarrived - Len(ulast.chunk)
  /\ ub.total_chunks_received = 2
  /\ ub.total_chunks_processed = 1
  /\ ub.last_process_time > 0

\* ---------------------------------------------------------------- C30
\* C30: clear empties the ring and sets last_process_time to 0 and leaves
\* both counters and the configuration as they were; over add_chunk,
\* get_processing_chunk and clear neither counter ever decreases.
C30_ClearKeepsCounters ==
  [][ /\ UClearStep =>
           /\ ub'.buffer = << >>
           /\ ub'.last_process_time = 0
           /\ ub'.total_chunks_received = ub.total_chunks_received
           /\ ub'.total_chunks_processed = ub.total_chunks_processed
           /\ UConfig(ub') = UConfig(ub)
      /\ ub'.total_chunks_received >= ub.total_chunks_received
      /\ ub'.total_chunks_processed >= ub.total_chunks_processed ]_vars

\* a buffer that had received chunks and handed out a window was cleared
C30_Witness ==
  /\ ulast.op = "clear"
  /\ ub.buffer = << >>
  /\ ub.last_process_time = 0
  /\ uarrived > 0
  /\ ub.total_chunks_received >= 2
  /\ ub.total_chunks_processed >= 1


\* ---------------------------------------------------------------- C31
\* nothing is stored in the registry under connection c's client id
SessionAbsent(c) == client_id[c] = NoId \/ client_id[c] \notin HeldIds(manager)

\* C31: once the transport of a connection whose coroutine is still running
\* is gone, the coroutine eventually ends, and then nothing is stored under
\* its client id: no handle, no buffer, no metadata.
C31_DeadTransportCleanedUp ==
  \A c \in Conns :
    (~alive[c] /\ pc[c] # "done") ~> (pc[c] = "done" /\ SessionAbsent(c))

\* a session that had buffered samples is gone after its transport went
\* down and the loop's receive raised WebSocketDisconnect
C31_Witness ==
  \E c \in Conns :
    /\ pc[c] = "done"
    /\ ~alive[c]
    /\ registered[c]
    /\ arrived[c] > 0
    /\ exit_at[c] = "recv"
    /\ SessionAbsent(c)


\* ---------------------------------------------------------------- C32
\* the state of a connection, from the position of its coroutine: before
\* connect() returned, between connect() and the end of the coroutine, after
ConnState(p) ==
  IF p = "done" THEN "Closed"
  ELSE IF p \in {"handshake", "accept"} THEN "Handshaking"
  ELSE "Active"

\* C32: a connection's state only moves forward, Handshaking to Active to
\* Closed (or Handshaking to Closed); once it is Closed its coroutine takes
\* no further step: no envelope is dispatched, no reply is pending or sent,
\* its counters stay, and the registry changes only by steps of a connection
\* that is still open.
C32_StateOrder ==
  [][\A c \in Conns :
       LET s == ConnState(pc[c])
           t == ConnState(pc'[c])
       IN /\ (s # t) => (<< s, t >> \in { << "Handshaking", "Active" >>,
                                          << "Active", "Closed" >>,
                                          << "Handshaking", "Closed" >> })
          /\ (s = "Closed") =>
               /\ pc'[c] = "done"
               /\ out[c] = NoReply /\ out'[c] = NoReply
               /\ loc'[c] = loc[c] /\ last'[c] = last[c]
               /\ client_id'[c] = client_id[c]
               /\ arrived'[c] = arrived[c]
               /\ registered'[c] = registered[c]
               /\ disconnects'[c] = disconnects[c]
               /\ exit_at'[c] = exit_at[c]
               /\ ((manager' # manager) => (\E d \in Conns \ {c} : pc[d] # "done"))
  ]_vars

\* a connection that was Active is Closed, after the send of an error reply
\* raised, while the client had sent fewer envelopes than it may
C32_Witness ==
  \E c \in Conns :
    /\ pc[c] = "done"
    /\ registered[c]
    /\ exit_at[c] = "send_loop"
    /\ disconnects[c] = 1
    /\ received < limit


\* ---------------------------------------------------------------- C33
\* C33: a first frame that is not a JSON object, a first receive that raises
\* and an accept() that raises each end the coroutine at once; a connection
\* that ends while Handshaking was never registered, has no reply pending
\* (the connected envelope was never produced) and leaves nothing in the
\* registry under its client id.
C33_HandshakeFailureCloses ==
  [][\A c \in Conns :
       /\ Handshake(c, Malformed) => (pc'[c] = "done")
       /\ HandshakeDisconnect(c) => (pc'[c] = "done")
       /\ AcceptFails(c) => (pc'[c] = "done")
       /\ (ConnState(pc[c]) = "Handshaking" /\ pc'[c] = "done") =>
            /\ ~registered'[c]
            /\ out'[c] = NoReply
            /\ last'[c].replies = << >>
            /\ \/ client_id'[c] = NoId
               \/ client_id'[c] \notin HeldIds(manager')
  ]_vars

\* accept() raised for a connection whose first envelope carried a client
\* id: disconnect ran for an id that was never stored
C33_Witness ==
  \E c \in Conns :
    /\ pc[c] = "done"
    /\ ~registered[c]
    /\ exit_at[c] = "accept"
    /\ client_id[c] \in ClientIds
    /\ disconnects[c] = 1
    /\ client_id[c] \notin HeldIds(manager)

\* a malformed first frame closed the connection before any client id
C33_WitnessMalformed ==
  \E c \in Conns :
    /\ pc[c] = "done"
    /\ alive[c]
    /\ exit_at[c] = "handshake"
    /\ client_id[c] = NoId
    /\ disconnects[c] = 0


\* ---------------------------------------------------------------- C34
\* the value a config envelope's field asks for: the field's when it is
\* present and not zero, else the stored one
Configured(field, stored) == IF field # Absent /\ field # 0 THEN field ELSE stored

\* C34: a ping is answered with one pong envelope and a config message with
\* one config_updated envelope, and once that reply is out on an open
\* transport the coroutine is back at receive with the manager untouched.
\* A ping leaves every stream buffer as it was; a config message leaves the
\* session's buffer as it was except that sample_rate and chunk_duration
\* take the values of the fields that are present and not zero.
C34_PingAndConfig ==
  [][\A c \in Conns :
       /\ RecvPing(c)
            => /\ pc'[c] = "send_loop"
               /\ out'[c] = Reply("pong", "")
               /\ last'[c].replies = << >>
               /\ manager'.stream_buffers = manager.stream_buffers
       /\ \A m \in ConfigMessages :
            (RecvConfig(c, m) /\ client_id[c] \in DOMAIN manager.stream_buffers)
              => LET b == manager.stream_buffers[client_id[c]]
                 IN /\ pc'[c] = "send_loop"
                    /\ out'[c] = Reply("config_updated", "")
                    /\ last'[c].replies = << >>
                    /\ manager'.stream_buffers =
                         [manager.stream_buffers EXCEPT ![client_id[c]] =
                            [b EXCEPT
                               !.sample_rate = Configured(m.sample_rate, b.sample_rate),
                               !.chunk_duration =
                                 Configured(m.chunk_duration, b.chunk_duration)]]
       /\ (SentAlive(c) /\ last[c].type \in {"ping", "config"})
            => /\ out[c].type = (IF last[c].type = "ping" THEN "pong"
                                 ELSE "config_updated")
               /\ last[c].replies = << >>
               /\ pc'[c] = "recv"
               /\ manager' = manager]_vars

\* a config message changed the chunk duration of a session whose buffer
\* holds samples, and its config_updated reply is about to go out
C34_Witness ==
  \E c \in Conns :
    /\ pc[c] = "send_loop"
    /\ alive[c]
    /\ last[c].type = "config"
    /\ out[c] = Reply("config_updated", "")
    /\ Stored(c, manager)
    /\ client_id[c] \in DOMAIN manager.stream_buffers
    /\ manager.stream_buffers[client_id[c]].chunk_duration # DefaultChunkDuration
    /\ Len(manager.stream_buffers[client_id[c]].buffer) > 0
    /\ manager.stream_buffers[client_id[c]].total_chunks_received > 0

\* a ping is being answered on an open transport
C34_WitnessPing ==
  \E c \in Conns :
    /\ pc[c] = "send_loop"
    /\ alive[c]
    /\ last[c].type = "ping"
    /\ out[c] = Reply("pong", "")
    /\ Len(manager.stream_buffers[client_id[c]].buffer) > 0


\* ---------------------------------------------------------------- C35
\* C35: get_connection_stats changes nothing in the manager (the three maps,
\* the metadata counters, every buffer), whether it returns None, raises or
\* returns a snapshot; the snapshot it returns shows the stored metadata and
\* the buffer's get_stats; and a later write to that snapshot by the caller
\* leaves the manager as it was.
C35_LookupNoSideEffects ==
  [][\A id \in RegIds :
       /\ (RegCall("get") /\ reg'.id = id)
            => /\ manager' = manager
               /\ reg'.snap = get_connection_stats(manager, id)
               /\ reg'.snap.some =>
                    /\ reg'.snap.stats[1] = manager.connection_metadata[id]
                    /\ (id \in DOMAIN manager.stream_buffers) =>
                         reg'.snap.stats[2] = get_stats(manager.stream_buffers[id])
       /\ (RegCall("mutate") /\ reg'.id = id)
            => /\ manager' = manager
               /\ id \in DOMAIN manager.connection_metadata =>
                    reg'.snap.stats[1] # manager'.connection_metadata[id]
  ]_vars

\* the caller changed total_messages in the snapshot of a session that had
\* counted nothing but holds samples; the stored counter is still 0
C35_Witness ==
  /\ reg.op = "mutate"
  /\ reg.id \in DOMAIN manager.connection_metadata
  /\ reg.id \in DOMAIN manager.stream_buffers
  /\ Len(manager.stream_buffers[reg.id].buffer) > 0
  /\ reg.snap.stats[1].total_messages = 1
  /\ manager.connection_metadata[reg.id].total_messages = 0


\* ---------------------------------------------------------------- C36
\* C36: between any two steps of the coroutines and of the manager's
\* methods, the three maps of the registry have the same keys: every id
\* with a websocket has a buffer and a metadata record, and no buffer or
\* metadata record is without a websocket.
C36_SameKeys ==
  /\ DOMAIN manager.active_connections = DOMAIN manager.stream_buffers
  /\ DOMAIN manager.stream_buffers = DOMAIN manager.connection_metadata

\* two sessions are registered, the second one just connected after other
\* calls of the manager's methods
C36_Witness ==
  /\ reg.op = "connect"
  /\ reg.n >= 3
  /\ Cardinality(DOMAIN manager.active_connections) = 2
  /\ Cardinality(DOMAIN manager.connection_metadata) = 2
  /\ \E id \in DOMAIN manager.stream_buffers :
       Len(manager.stream_buffers[id].buffer) > 0


\* ---------------------------------------------------------------- C37
\* C37: while a connection is Active (from the return of connect to the end
\* of its coroutine) the registry holds, under the connection's client id,
\* that connection's own websocket together with a buffer and a metadata
\* record, so that process_audio_chunk finds a buffer for every
\* audio_chunk the connection sends.
C37_ActiveSessionBound ==
  \A c \in Conns :
    (ConnState(pc[c]) = "Active")
      => /\ Stored(c, manager)
         /\ client_id[c] \in DOMAIN manager.stream_buffers
         /\ client_id[c] \in DOMAIN manager.connection_metadata


\* ---------------------------------------------------------------- C38
\* total_messages of the session stored under id
TotalMessages(mgr, id) == mgr.connection_metadata[id].total_messages

\* C38: the handshake only takes the client id from the first envelope: it
\* dispatches nothing, replies nothing and leaves the registry alone, and
\* the session that connect then stores has counted no message and holds no
\* sample, also when the first envelope was an audio_chunk with a valid
\* payload.  From then on total_messages grows by one with every envelope
\* the loop takes, whatever its type and whatever becomes of it, stays as it
\* is for a frame that is not a JSON object, and changes at no other step.
C38_FirstEnvelopeNotCounted ==
  [][\A c \in Conns :
       /\ (pc[c] = "handshake" /\ pc'[c] # "handshake")
            => /\ pc'[c] \in {"accept", "done"}
               /\ out'[c] = NoReply
               /\ arrived' = arrived
               /\ received' = received
               /\ manager' = manager
       /\ (pc[c] = "accept" /\ pc'[c] = "send_connected")
            => /\ TotalMessages(manager', client_id[c]) = 0
               /\ manager'.stream_buffers[client_id[c]].buffer = << >>
               /\ manager'.stream_buffers[client_id[c]].total_chunks_received = 0
       /\ (pc[c] = "recv" /\ received' = received + 1
             /\ client_id[c] \in DOMAIN manager.connection_metadata)
            => TotalMessages(manager', client_id[c]) =
                 TotalMessages(manager, client_id[c])
                   + (IF last'[c].type = "malformed" THEN 0 ELSE 1)
       /\ (pc[c] \notin {"recv", "accept"}
             /\ client_id[c] \in DOMAIN manager.connection_metadata
             /\ client_id[c] \in DOMAIN manager'.connection_metadata)
            => TotalMessages(manager', client_id[c]) = TotalMessages(manager, client_id[c])
  ]_vars

\* a connection whose first envelope was an audio_chunk with a valid payload
\* has been registered: nothing is counted and nothing is buffered
C38_Witness ==
  \E c \in Conns :
    /\ pc[c] = "send_connected"
    /\ alive[c]
    /\ last[c].type = "first audio_chunk"
    /\ Stored(c, manager)
    /\ TotalMessages(manager, client_id[c]) = 0
    /\ manager.stream_buffers[client_id[c]].buffer = << >>

\* an envelope of unknown type, the third the loop took, has been counted
C38_WitnessCounted ==
  \E c \in Conns :
    /\ pc[c] = "send_loop"
    /\ IsUnknown(last[c])
    /\ Stored(c, manager)
    /\ received = 3
    /\ TotalMessages(manager, client_id[c]) = 3


\* ---------------------------------------------------------------- C39
\* C39: an audio_chunk with a decodable payload, handled for a session that
\* has a buffer, leaves the buffer's sample_rate at the message's
\* sample_rate (the default when the field is absent), whatever it was
\* before; a window is handed out only if the ring holds at least
\* int(that rate x min_duration) samples, its length is
\* min(int(that rate x chunk_duration), samples in the ring), and when the
\* interval has passed and no window is handed out the ring holds fewer
\* samples than that threshold.
C39_MessageRateUsed ==
  [][\A c \in Conns :
       (/\ pc[c] = "recv"
        /\ last'[c].type = "audio_chunk"
        /\ last'[c].decodable
        /\ client_id[c] \in DOMAIN manager.stream_buffers)
         => \A m \in AudioMessages :
              RecvAudio(c, m)
                => LET b == manager.stream_buffers[client_id[c]]
                       b1 == manager'.stream_buffers[client_id[c]]
                       sr == EffectiveRate(m.sample_rate)
                   IN /\ b1.sample_rate = sr
                      /\ (last'[c].window = "some")
                           => /\ Len(b1.buffer) >= SamplesIn(sr, b.min_duration)
                              /\ Len(last'[c].chunk) =
                                   Min(SamplesIn(sr, b.chunk_duration), Len(b1.buffer))
                      /\ (last'[c].window = "none"
                            /\ now - b.last_process_time >= b.process_interval)
                           => Len(b1.buffer) < SamplesIn(sr, b.min_duration)
  ]_vars

\* a window was cut at the rate an audio_chunk named, for a session whose
\* chunk_duration a config message had changed before
C39_Witness ==
  \E c \in Conns :
    /\ pc[c] = "detect"
    /\ last[c].decodable
    /\ last[c].msg_sr = 1
    /\ Stored(c, manager)
    /\ manager.stream_buffers[client_id[c]].sample_rate = 1
    /\ manager.stream_buffers[client_id[c]].chunk_duration # DefaultChunkDuration
    /\ Len(last[c].chunk) > 0

\* an audio_chunk without a sample_rate put the buffer back at the default
\* rate and, the ring holding too few samples at that rate, got no window
C39_WitnessDefault ==
  \E c \in Conns :
    /\ pc[c] = "recv"
    /\ last[c].type = "audio_chunk"
    /\ last[c].decodable
    /\ last[c].window = "none"
    /\ manager.stream_buffers[client_id[c]].sample_rate = DefaultSampleRate
    /\ manager.stream_buffers[client_id[c]].total_chunks_received >= 2


\* ---------------------------------------------------------------- C40
\* in every session the detections counted are at most the windows its
\* buffer handed out and at most the messages it counted
DetectionsBounded(mgr) ==
  \A id \in DOMAIN mgr.connection_metadata :
    /\ mgr.connection_metadata[id].total_detections
         <= mgr.connection_metadata[id].total_messages
    /\ (id \in DOMAIN mgr.stream_buffers)
         => mgr.connection_metadata[id].total_detections
              <= mgr.stream_buffers[id].total_chunks_processed

\* C40: after every step, each session's total_detections is at most its
\* buffer's total_chunks_processed and at most its total_messages; a step
\* in which detect returns adds exactly one to the session's
\* total_detections, and every other step of a session that stays
\* registered (detect raising, an audio_chunk that gets no window, any other
\* message, a send) leaves it as it was.
C40_DetectionsCounted ==
  [][/\ DetectionsBounded(manager')
     /\ \A c \in Conns :
          (/\ client_id[c] \in DOMAIN manager.connection_metadata
           /\ client_id[c] \in DOMAIN manager'.connection_metadata
           /\ pc[c] # "accept")
            => Detections(manager', client_id[c]) =
                 Detections(manager, client_id[c])
                   + (IF pc[c] = "detect" /\ pc'[c] = "send_audio" THEN 1 ELSE 0)
  ]_vars

\* detect raised for the second window of a session whose first window was
\* detected: one detection counted, two windows handed out
C40_Witness ==
  \E c \in Conns :
    /\ pc[c] = "send_loop"
    /\ last[c].ret = "raised"
    /\ Stored(c, manager)
    /\ Detections(manager, client_id[c]) = 1
    /\ Windows(manager, client_id[c]) = 2
    /\ manager.connection_metadata[client_id[c]].total_messages >= 2
====
